---- MODULE Spec2Model ----
(***************************************************************************)
(* The pg_autoctl keeper: the node_active loop of loop.c                   *)
(* (keeper_service_run), its partition detector (is_network_healthy,       *)
(* in_network_partition), the configuration reload and the exit of the     *)
(* node_active child process, as a state machine.                          *)
(*                                                                         *)
(* One record per keeper process (keeper[p]) holds the process's globals   *)
(* (signal flags, keepRunning), the locals of keeper_service_run and the   *)
(* in-memory Keeper structure.  The PID file, the state file, the          *)
(* configuration file, the local Postgres instance and the wall clock are  *)
(* shared.  Every blocking call of the loop is one step; a signal, a       *)
(* clock tick or an operator's action may come between any two steps.      *)
(***************************************************************************)
EXTENDS Integers, FiniteSets, Sequences, TLC

(***************************************************************************)
(* Bounds of the model.                                                    *)
(***************************************************************************)
\* the wall clock runs over 1..MaxTime (epoch seconds, scaled)
MaxTime == 3
\* the configured network_partition_timeout, in clock units
PartitionTimeout == 1
\* uint64_t is kept as a residue modulo 2^UintWidth (a scaled width: every
\* timestamp of the model is far below the modulus, as in the program)
UintWidth == 16

(***************************************************************************)
(* NodeState, exit codes, pids.                                            *)
(***************************************************************************)
INIT_STATE == "init"
SINGLE_STATE == "single"
WAIT_PRIMARY_STATE == "wait_primary"
PRIMARY_STATE == "primary"
WAIT_STANDBY_STATE == "wait_standby"
CATCHINGUP_STATE == "catchingup"
SECONDARY_STATE == "secondary"
MAINTENANCE_STATE == "maintenance"
DRAINING_STATE == "draining"
DEMOTED_STATE == "demoted"
DEMOTE_TIMEOUT_STATE == "demote_timeout"
STOP_REPLICATION_STATE == "stop_replication"
PREP_PROMOTION_STATE == "prepare_promotion"
STANDBY_PROMOTED_STATE == "standby_promoted"

NodeStates ==
    { INIT_STATE, SINGLE_STATE, WAIT_PRIMARY_STATE, PRIMARY_STATE,
      WAIT_STANDBY_STATE, CATCHINGUP_STATE, SECONDARY_STATE,
      MAINTENANCE_STATE, DRAINING_STATE, DEMOTED_STATE,
      DEMOTE_TIMEOUT_STATE, STOP_REPLICATION_STATE, PREP_PROMOTION_STATE,
      STANDBY_PROMOTED_STATE }

\* the goal states the monitor answers with in this model: one with an edge
\* from PRIMARY and back, PRIMARY itself, and one that PRIMARY has no edge to
MonitorAnswers == { WAIT_PRIMARY_STATE, PRIMARY_STATE, DEMOTED_STATE }

EXIT_CODE_NONE == "running"
EXIT_CODE_QUIT == "EXIT_CODE_QUIT"
EXIT_CODE_INTERNAL_ERROR == "EXIT_CODE_INTERNAL_ERROR"

\* the content of a PID file that does not exist
NoPidFile == "none"
\* the PIDs of the keeper processes of the model
FirstPid == "keeper1"
SecondPid == "keeper2"
\* a PID that is no keeper of the model (written by an operator)
ForeignPid == "foreign"

VARIABLES
    clock,        \* time(NULL)
    pidfile,      \* content of config->pathnames.pid, or NoPidFile
    statefile,    \* the KeeperStateData record in config->pathnames.state
    configfile,   \* content of config->pathnames.config
    pgRunning,    \* whether the local Postgres instance is running
    writers,      \* the processes that have written the state file
    keeper,       \* keeper[p]: the process of pid p
    otherSide,    \* the monitor and standby side of the group
    httpd,        \* the HTTP server process: its last request and answer
    destroy       \* the pg_autoctl destroy command, and what it left behind

vars == << clock, pidfile, statefile, configfile, pgRunning, writers, keeper,
           otherSide, httpd, destroy >>

(***************************************************************************)
(* uint64_t arithmetic.                                                    *)
(***************************************************************************)
UintModulus == 2 ^ UintWidth

ToUint64(x) == x % UintModulus

Uint64Sub(a, b) == (a - b) % UintModulus

(***************************************************************************)
(* The partition detector.                                                 *)
(***************************************************************************)
\* a faulty variant of in_network_partition: a lag equal to the timeout already
\* counts as a partition
in_network_partition_at_timeout(keeperState, now, networkPartitionTimeout) ==
    /\ keeperState.last_monitor_contact > 0
    /\ keeperState.last_secondary_contact > 0
    /\ ToUint64(networkPartitionTimeout)
         <= Uint64Sub(now, keeperState.last_monitor_contact)
    /\ ToUint64(networkPartitionTimeout)
         <= Uint64Sub(now, keeperState.last_secondary_contact)

\* a faulty variant of in_network_partition: a contact time of 0 (never) is
\* not told from a contact at time 0
in_network_partition_without_guards(keeperState, now, networkPartitionTimeout) ==
    /\ ToUint64(networkPartitionTimeout)
         < Uint64Sub(now, keeperState.last_monitor_contact)
    /\ ToUint64(networkPartitionTimeout)
         < Uint64Sub(now, keeperState.last_secondary_contact)

\* in_network_partition: both lags are uint64_t differences, and the int
\* networkPartitionTimeout is converted to uint64_t by the comparisons
in_network_partition(keeperState, now, networkPartitionTimeout) ==
    LET monitor_contact_lag ==
            Uint64Sub(now, keeperState.last_monitor_contact)
        secondary_contact_lag ==
            Uint64Sub(now, keeperState.last_secondary_contact)
    IN  /\ keeperState.last_monitor_contact > 0
        /\ keeperState.last_secondary_contact > 0
        /\ ToUint64(networkPartitionTimeout) < monitor_contact_lag
        /\ ToUint64(networkPartitionTimeout) < secondary_contact_lag

\* a faulty variant of is_network_healthy: the result of primary_has_replica
\* is not looked at, so that a probe that failed counts as a standby
is_network_healthy_trusting(keeperState, networkPartitionTimeout, now, probe) ==
    IF keeperState.current_role # PRIMARY_STATE
    THEN [ healthy |-> TRUE, state |-> keeperState ]
    ELSE IF probe \in { "connected", "failed" }
    THEN [ healthy |-> TRUE,
           state |-> [ keeperState EXCEPT !.last_secondary_contact = now ] ]
    ELSE IF ~ in_network_partition(keeperState, now, networkPartitionTimeout)
    THEN [ healthy |-> TRUE, state |-> keeperState ]
    ELSE [ healthy |-> FALSE, state |-> keeperState ]

\* a faulty variant of is_network_healthy: a standby that is not connected is
\* forgotten (last_secondary_contact = 0)
is_network_healthy_forgetful(keeperState, networkPartitionTimeout, now, probe) ==
    IF keeperState.current_role # PRIMARY_STATE
    THEN [ healthy |-> TRUE, state |-> keeperState ]
    ELSE IF probe = "connected"
    THEN [ healthy |-> TRUE,
           state |-> [ keeperState EXCEPT !.last_secondary_contact = now ] ]
    ELSE [ healthy |->
               ~ in_network_partition(keeperState, now, networkPartitionTimeout),
           state |-> [ keeperState EXCEPT !.last_secondary_contact = 0 ] ]

\* the result of primary_has_replica: the probe's return value and hasReplica
ReplicaProbes == { "connected", "absent", "failed" }

\* is_network_healthy, as the pair of its return value and the keeper state
\* it leaves; now is its own reading of time(NULL)
is_network_healthy(keeperState, networkPartitionTimeout, now, probe) ==
    IF keeperState.current_role # PRIMARY_STATE
    THEN [ healthy |-> TRUE, state |-> keeperState ]
    ELSE IF probe = "connected"
    THEN [ healthy |-> TRUE,
           state |-> [ keeperState EXCEPT !.last_secondary_contact = now ] ]
    ELSE IF ~ in_network_partition(keeperState, now, networkPartitionTimeout)
    THEN [ healthy |-> TRUE, state |-> keeperState ]
    ELSE [ healthy |-> FALSE, state |-> keeperState ]

(***************************************************************************)
(* The state machine of fsm.c and keeper.c, which loop.c calls.            *)
(***************************************************************************)
\* the (from, to) pairs that have a transition
FsmTable ==
    { << INIT_STATE, SINGLE_STATE >>,
      << SINGLE_STATE, WAIT_PRIMARY_STATE >>,
      << WAIT_PRIMARY_STATE, PRIMARY_STATE >>,
      << PRIMARY_STATE, WAIT_PRIMARY_STATE >>,
      << PRIMARY_STATE, DRAINING_STATE >>,
      << DRAINING_STATE, DEMOTED_STATE >>,
      << DEMOTED_STATE, CATCHINGUP_STATE >>,
      << CATCHINGUP_STATE, SECONDARY_STATE >>,
      << SECONDARY_STATE, PREP_PROMOTION_STATE >>,
      << PREP_PROMOTION_STATE, STANDBY_PROMOTED_STATE >>,
      << STANDBY_PROMOTED_STATE, PRIMARY_STATE >>,
      << PRIMARY_STATE, DEMOTE_TIMEOUT_STATE >> }
    \cup { << s, MAINTENANCE_STATE >> : s \in NodeStates \ { MAINTENANCE_STATE } }
    \cup { << MAINTENANCE_STATE, s >> : s \in NodeStates \ { MAINTENANCE_STATE } }

\* whether Postgres is expected to run in a role
RoleExpectsPostgres(role) ==
    role \notin { INIT_STATE, MAINTENANCE_STATE, DRAINING_STATE, DEMOTED_STATE,
                  DEMOTE_TIMEOUT_STATE }

\* keeper_fsm_reach_assigned_state: the state and Postgres it leaves, and its
\* return value, when the action program of the edge ends with stepsOk
keeper_fsm_reach_assigned_state(keeperState, pg, stepsOk) ==
    IF << keeperState.current_role, keeperState.assigned_role >> \in FsmTable
       /\ stepsOk
    THEN [ ok |-> TRUE,
           state |-> [ keeperState EXCEPT
                         !.current_role = keeperState.assigned_role ],
           pg |-> RoleExpectsPostgres(keeperState.assigned_role) ]
    ELSE [ ok |-> FALSE, state |-> keeperState, pg |-> pg ]

\* keeper_ensure_current_state: Postgres runs iff the current role expects it
keeper_ensure_current_state(keeperState, pg, ok) ==
    IF ok THEN RoleExpectsPostgres(keeperState.current_role) ELSE pg

\* read_pidfile succeeds when the file exists and holds a PID
read_pidfile(file) == file # NoPidFile

(***************************************************************************)
(* Initial state: a keeper service that starts on a node whose state file  *)
(* says PRIMARY, reached under the monitor at time 1, no standby seen yet. *)
(***************************************************************************)
InitialKeeperState ==
    [ current_role |-> PRIMARY_STATE,
      assigned_role |-> PRIMARY_STATE,
      last_monitor_contact |-> 1,
      last_secondary_contact |-> 0,
      current_node_id |-> 1,
      current_group |-> 0,
      pg_version |-> 11,
      pg_control_version |-> 1100,
      system_identifier |-> 7 ]

InitialConfig ==
    [ formation |-> "default",
      network_partition_timeout |-> PartitionTimeout ]

\* what one iteration of the loop has done so far (observations only)
FreshTick ==
    [ slept |-> FALSE,          \* sleep(PG_AUTOCTL_KEEPER_SLEEP_TIME) was called
      pidChecked |-> FALSE,     \* read_pidfile was called
      pidSeen |-> NoPidFile,    \* what the PID file held then
      loaded |-> FALSE,         \* keeper_load_state returned true
      loadedState |-> InitialKeeperState,  \* what it read
      probeFailed |-> FALSE,    \* keeper_update_pg_state returned false (kept
                                \* up to the transition step)
      monitorCalled |-> FALSE,  \* monitor_node_active was called
      reportedRole |-> "none",  \* the current_role it was given
      assignedIds |-> << 0, 0 >>, \* the nodeId and groupId it returned
      healthNow |-> 0,          \* time(NULL) as read by is_network_healthy
      probe |-> "none",         \* what primary_has_replica answered
      overrode |-> FALSE,       \* line 263 assigned DEMOTE_TIMEOUT_STATE
      ensured |-> FALSE,        \* keeper_ensure_current_state was called
      ensureFailed |-> FALSE,   \* and returned false (kept up to the
                                \* transition step)
      transitionTried |-> FALSE,\* keeper_fsm_reach_assigned_state was called
      transitionOk |-> FALSE,   \* and returned true
      storeCalls |-> 0,         \* calls of keeper_store_state
      stored |-> FALSE ]        \* keeper_store_state returned true

InitialProcess(p) ==
    [ pc |-> "top",
      start_pid |-> p,
      keepRunning |-> TRUE,
      asked_to_stop |-> FALSE,
      asked_to_stop_fast |-> FALSE,
      asked_to_reload |-> FALSE,
      doSleep |-> FALSE,
      couldContactMonitor |-> FALSE,
      needStateChange |-> FALSE,
      transitionFailed |-> FALSE,
      now |-> 0,
      state |-> InitialKeeperState,
      config |-> InitialConfig,
      pgIsRunning |-> FALSE,
      exitCode |-> EXIT_CODE_NONE,
      exitAt |-> "none",
      tick |-> FreshTick,
      \* the in-memory contact times at the end of the last tick that reached
      \* its end, and whether that tick's keeper_store_state succeeded
      endMonitorContact |-> InitialKeeperState.last_monitor_contact,
      endSecondaryContact |-> InitialKeeperState.last_secondary_contact,
      endStored |-> TRUE,
      \* the in-memory current_role at the end of that tick
      endRole |-> InitialKeeperState.current_role,
      \* a SIGHUP was delivered and reload_configuration has not read the
      \* configuration file since
      hupSinceRead |-> FALSE,
      \* the state file was written while the PID file was not ours
      wroteUnderForeignPid |-> FALSE,
      \* calls of keeper_store_state made with asked_to_stop_fast set
      storesUnderFastStop |-> 0 ]

\* the monitor and standby side: whether the monitor and the standby reach the
\* primary, when they last did once neither does, and whether they have
\* promoted the standby
InitialOtherSide ==
    [ monitorLink |-> TRUE,
      standbyLink |-> TRUE,
      lastHeard |-> 0,
      promoted |-> FALSE ]

\* a node on which every call of a handler succeeds
HealthyNode ==
    [ pathnamesOk |-> TRUE, role |-> "keeper", readable |-> TRUE,
      alloc |-> "ok" ]

\* the HTTP server before its first request: the URI of the last request, the
\* handler httpd_dispatch called for it, what httpd_dispatch returned, the
\* responses written on the connection; and, as observations, the parity of
\* the number of requests served and the node the last request found
InitialHttpd ==
    [ uri |-> "none", handler |-> "none", result |-> 0, responses |-> << >>,
      served |-> 0, node |-> HealthyNode ]

\* pg_autoctl destroy has not been run: where the command is, and whether it
\* has removed the state file and PGDATA
InitialDestroy ==
    [ pc |-> "none", stateRemoved |-> FALSE, pgdataRemoved |-> FALSE,
      exitCode |-> EXIT_CODE_NONE ]

InitShared ==
    /\ clock = 1
    /\ statefile = InitialKeeperState
    /\ configfile = [ kind |-> "ok", formation |-> "default",
                      network_partition_timeout |-> PartitionTimeout ]
    /\ pgRunning = TRUE
    /\ writers = {}
    /\ otherSide = InitialOtherSide
    /\ httpd = InitialHttpd
    /\ destroy = InitialDestroy

Init ==
    /\ InitShared
    /\ pidfile = FirstPid
    /\ keeper = [ p \in { FirstPid } |-> InitialProcess(p) ]

(***************************************************************************)
(* keeper_service_run, one step per blocking call.                         *)
(***************************************************************************)
\* break out of the while loop: keeper_service_run returns
Break(k, where) ==
    [ k EXCEPT !.pc = "returned",
               !.exitAt = where,
               !.tick.probeFailed = FALSE,
               !.tick.ensureFailed = FALSE ]

\* CHECK_FOR_FAST_SHUTDOWN: break when asked_to_stop_fast is set
FastShutdown(k) == k.asked_to_stop_fast

\* faulty variants of the PID guard: a missing PID file is accepted; the PID
\* read is not compared with start_pid
PidFileIsOursOrMissing(file, start_pid) ==
    ~ read_pidfile(file) \/ file = start_pid

PidFileIsThere(file, start_pid) == read_pidfile(file)

\* lines 160-184: the PID file exists, is read, and holds start_pid
PidFileIsOurs(file, start_pid) == read_pidfile(file) /\ file = start_pid

\* a faulty variant of line 298: a transition is run in every tick
NeedStateChangeAlways(keeperState) == TRUE

\* line 298: a transition is needed
NeedStateChange(keeperState) ==
    keeperState.assigned_role # keeperState.current_role

\* a faulty variant of line 320: the sleep is never switched off
MadeProgressNever(k) == FALSE

\* a faulty variant of line 320: transitionFailed is not looked at
MadeProgressAlways(k) == k.needStateChange

\* line 320: the tick made a state transition
MadeProgress(k) == k.needStateChange /\ ~ k.transitionFailed

\* a faulty variant of line 326: asked_to_stop is not looked at
StopRequestedFastOnly(k) == k.asked_to_stop_fast

\* line 326: asked to stop, either way
StopRequested(k) == k.asked_to_stop \/ k.asked_to_stop_fast

\* while (keepRunning), the locals of the iteration, now = time(NULL), and
\* the test of asked_to_reload
LoopTop(p) ==
    LET k == keeper[p] IN
    /\ k.pc = "top"
    /\ keeper' = [ keeper EXCEPT ![p] =
           IF ~ k.keepRunning
           THEN Break(k, "while")
           ELSE [ k EXCEPT !.needStateChange = FALSE,
                           !.transitionFailed = FALSE,
                           !.now = clock,
                           !.tick = FreshTick,
                           !.pc = IF k.asked_to_reload
                                  THEN "reload" ELSE "stop_check" ] ]
    /\ UNCHANGED << clock, pidfile, statefile, configfile, pgRunning, writers,
                    otherSide, httpd, destroy >>

\* a faulty variant of reload_configuration: the values of the file are taken
\* whether or not the file was read and accepted
ReloadConfigurationUnchecked(p) ==
    LET k == keeper[p] IN
    /\ k.pc = "reload"
    /\ keeper' = [ keeper EXCEPT ![p] =
           [ k EXCEPT !.config.network_partition_timeout =
                          configfile.network_partition_timeout,
                      !.hupSinceRead = FALSE,
                      !.pc = "reload_done" ] ]
    /\ UNCHANGED << clock, pidfile, statefile, configfile, pgRunning, writers,
                    otherSide, httpd, destroy >>

\* reload_configuration up to its last statement: the file is read, and the
\* reloadable fields of an accepted file replace those of the configuration
ReloadConfiguration(p) ==
    LET k == keeper[p] IN
    /\ k.pc = "reload"
    /\ keeper' = [ keeper EXCEPT ![p] =
           [ k EXCEPT !.config =
                 IF configfile.kind = "ok"
                 THEN [ k.config EXCEPT !.network_partition_timeout =
                            configfile.network_partition_timeout ]
                 ELSE k.config,
               !.hupSinceRead = FALSE,
               !.pc = "reload_done" ] ]
    /\ UNCHANGED << clock, pidfile, statefile, configfile, pgRunning, writers,
                    otherSide, httpd, destroy >>

\* asked_to_reload = 0
ReloadDone(p) ==
    LET k == keeper[p] IN
    /\ k.pc = "reload_done"
    /\ keeper' = [ keeper EXCEPT ![p] =
           [ k EXCEPT !.asked_to_reload = FALSE, !.pc = "stop_check" ] ]
    /\ UNCHANGED << clock, pidfile, statefile, configfile, pgRunning, writers,
                    otherSide, httpd, destroy >>

\* a faulty variant of lines 139-149: asked_to_stop is not tested at the top
CheckStopWithoutBreak(p) ==
    LET k == keeper[p] IN
    /\ k.pc = "stop_check"
    /\ keeper' = [ keeper EXCEPT ![p] =
           [ k EXCEPT !.tick.slept = k.doSleep,
                      !.doSleep = TRUE,
                      !.pc = "pid_check" ] ]
    /\ UNCHANGED << clock, pidfile, statefile, configfile, pgRunning, writers,
                    otherSide, httpd, destroy >>

\* if (asked_to_stop) break; if (doSleep) sleep(...); doSleep = true
CheckStop(p) ==
    LET k == keeper[p] IN
    /\ k.pc = "stop_check"
    /\ keeper' = [ keeper EXCEPT ![p] =
           IF k.asked_to_stop
           THEN Break(k, "asked_to_stop")
           ELSE [ k EXCEPT !.tick.slept = k.doSleep,
                           !.doSleep = TRUE,
                           !.pc = "pid_check" ] ]
    /\ UNCHANGED << clock, pidfile, statefile, configfile, pgRunning, writers,
                    otherSide, httpd, destroy >>

\* the PID file is read and compared with start_pid; exit(EXIT_CODE_QUIT)
\* when it is missing or holds another PID
PidCheck(p) ==
    LET k == keeper[p] IN
    /\ k.pc = "pid_check"
    /\ keeper' = [ keeper EXCEPT ![p] =
           IF PidFileIsOurs(pidfile, k.start_pid)
           THEN [ k EXCEPT !.tick.pidChecked = TRUE,
                           !.tick.pidSeen = pidfile,
                           !.pc = "load" ]
           ELSE [ k EXCEPT !.tick.pidChecked = TRUE,
                           !.tick.pidSeen = pidfile,
                           !.pc = "exited",
                           !.exitAt = "pidfile",
                           !.exitCode = EXIT_CODE_QUIT ] ]
    /\ UNCHANGED << clock, pidfile, statefile, configfile, pgRunning, writers,
                    otherSide, httpd, destroy >>

\* a faulty variant of lines 186-202: the state kept in memory is used and the
\* file is not read again
LoadStateFromMemory(p) ==
    LET k == keeper[p] IN
    /\ k.pc = "load"
    /\ \E ok \in BOOLEAN :
         keeper' = [ keeper EXCEPT ![p] =
           IF FastShutdown(k)
           THEN Break(k, "barrier_pid")
           ELSE IF ok
           THEN [ k EXCEPT !.tick.loaded = TRUE,
                           !.tick.loadedState = statefile,
                           !.pc = "probe" ]
           ELSE [ k EXCEPT !.pc = "load_failed" ] ]
    /\ UNCHANGED << clock, pidfile, statefile, configfile, pgRunning, writers,
                    otherSide, httpd, destroy >>

\* CHECK_FOR_FAST_SHUTDOWN (line 186), then keeper_load_state
LoadState(p) ==
    LET k == keeper[p] IN
    /\ k.pc = "load"
    /\ \E ok \in BOOLEAN :
         keeper' = [ keeper EXCEPT ![p] =
           IF FastShutdown(k)
           THEN Break(k, "barrier_pid")
           ELSE IF ok
           THEN [ k EXCEPT !.state = statefile,
                           !.tick.loaded = TRUE,
                           !.tick.loadedState = statefile,
                           !.pc = "probe" ]
           ELSE [ k EXCEPT !.pc = "load_failed" ] ]
    /\ UNCHANGED << clock, pidfile, statefile, configfile, pgRunning, writers,
                    otherSide, httpd, destroy >>

\* keeper_load_state failed: CHECK_FOR_FAST_SHUTDOWN (line 200), continue
LoadFailed(p) ==
    LET k == keeper[p] IN
    /\ k.pc = "load_failed"
    /\ keeper' = [ keeper EXCEPT ![p] =
           IF FastShutdown(k)
           THEN Break(k, "barrier_load")
           ELSE [ k EXCEPT !.pc = "top" ] ]
    /\ UNCHANGED << clock, pidfile, statefile, configfile, pgRunning, writers,
                    otherSide, httpd, destroy >>

\* keeper_update_pg_state: the in-memory view of Postgres is refreshed, or
\* the probe fails and Postgres is taken as not running; the loop does not
\* look at its return value (line 208)
UpdatePgState(p) ==
    LET k == keeper[p] IN
    /\ k.pc = "probe"
    /\ \E ok \in BOOLEAN :
         keeper' = [ keeper EXCEPT ![p] =
           [ k EXCEPT !.pgIsRunning = ok /\ pgRunning,
                      !.tick.probeFailed = ~ ok,
                      !.pc = "monitor" ] ]
    /\ UNCHANGED << clock, pidfile, statefile, configfile, pgRunning, writers,
                    otherSide, httpd, destroy >>

\* a faulty variant of lines 244-266: last_monitor_contact is set to now and
\* the partition check is left out when the monitor call failed
AfterNodeActiveStamping(k, reached, answer, probe, healthNow) ==
    IF reached
    THEN [ k EXCEPT !.couldContactMonitor = TRUE,
                    !.tick.monitorCalled = TRUE,
                    !.state.last_monitor_contact = k.now,
                    !.state.assigned_role = answer ]
    ELSE [ k EXCEPT !.couldContactMonitor = FALSE,
                    !.tick.monitorCalled = TRUE,
                    !.state.last_monitor_contact = k.now ]

\* a faulty variant of lines 244-266: the partition check is not guarded by
\* the test of current_role (line 257)
AfterNodeActiveRechecking(k, reached, answer, probe, healthNow) ==
    IF reached
    THEN [ k EXCEPT !.couldContactMonitor = TRUE,
                    !.tick.monitorCalled = TRUE,
                    !.state.last_monitor_contact = k.now,
                    !.state.assigned_role = answer ]
    ELSE LET h == is_network_healthy(k.state,
                                     k.config.network_partition_timeout,
                                     healthNow, probe)
         IN  [ k EXCEPT !.couldContactMonitor = FALSE,
                        !.tick.monitorCalled = TRUE,
                        !.tick.healthNow = healthNow,
                        !.tick.probe = probe,
                        !.tick.overrode = ~ h.healthy,
                        !.state = IF h.healthy
                                  THEN h.state
                                  ELSE [ h.state EXCEPT !.assigned_role =
                                             DEMOTE_TIMEOUT_STATE ] ]

\* a faulty variant of lines 244-248: last_monitor_contact is the time at
\* which monitor_node_active returned
AfterNodeActiveByTheClock(k, reached, answer, probe, healthNow) ==
    IF reached
    THEN [ k EXCEPT !.couldContactMonitor = TRUE,
                    !.tick.monitorCalled = TRUE,
                    !.state.last_monitor_contact = healthNow,
                    !.state.assigned_role = answer ]
    ELSE IF k.state.current_role = PRIMARY_STATE
    THEN LET h == is_network_healthy(k.state,
                                     k.config.network_partition_timeout,
                                     healthNow, probe)
         IN  [ k EXCEPT !.couldContactMonitor = FALSE,
                        !.tick.monitorCalled = TRUE,
                        !.tick.healthNow = healthNow,
                        !.tick.probe = probe,
                        !.tick.overrode = ~ h.healthy,
                        !.state = IF h.healthy
                                  THEN h.state
                                  ELSE [ h.state EXCEPT !.assigned_role =
                                             DEMOTE_TIMEOUT_STATE ] ]
    ELSE [ k EXCEPT !.couldContactMonitor = FALSE,
                    !.tick.monitorCalled = TRUE ]

\* lines 244-266: what the loop makes of monitor_node_active's result
\* (reached, answer) and, when it failed on a primary, of the partition check
AfterNodeActive(k, reached, answer, probe, healthNow) ==
    IF reached
    THEN [ k EXCEPT !.couldContactMonitor = TRUE,
                    !.tick.monitorCalled = TRUE,
                    !.state.last_monitor_contact = k.now,
                    !.state.assigned_role = answer ]
    ELSE IF k.state.current_role = PRIMARY_STATE
    THEN LET h == is_network_healthy(k.state,
                                     k.config.network_partition_timeout,
                                     healthNow, probe)
         IN  [ k EXCEPT !.couldContactMonitor = FALSE,
                        !.tick.monitorCalled = TRUE,
                        !.tick.healthNow = healthNow,
                        !.tick.probe = probe,
                        !.tick.overrode = ~ h.healthy,
                        !.state = IF h.healthy
                                  THEN h.state
                                  ELSE [ h.state EXCEPT !.assigned_role =
                                             DEMOTE_TIMEOUT_STATE ] ]
    ELSE [ k EXCEPT !.couldContactMonitor = FALSE,
                    !.tick.monitorCalled = TRUE ]

\* CHECK_FOR_FAST_SHUTDOWN (line 210), monitor_node_active filling
\* assignedState with (ids, answer) when it succeeds, lines 244-266
NodeActiveStepWith(p, reached, answer, probe, ids) ==
    LET k == keeper[p] IN
    /\ k.pc = "monitor"
    /\ keeper' = [ keeper EXCEPT ![p] =
           IF FastShutdown(k)
           THEN Break(k, "barrier_probe")
           ELSE [ AfterNodeActive(k, reached, answer, probe, clock)
                    EXCEPT !.tick.reportedRole = k.state.current_role,
                           !.tick.assignedIds =
                               IF reached THEN ids ELSE << 0, 0 >>,
                           !.pc = "ensure" ] ]

\* the same, with a monitor that returns the ids the node reported
NodeActiveStep(p, reached, answer, probe) ==
    NodeActiveStepWith(p, reached, answer, probe,
                       << keeper[p].state.current_node_id,
                          keeper[p].state.current_group >>)

\* the monitor answers or not, and a standby is connected or not, at will
NodeActive(p) ==
    /\ \E reached \in BOOLEAN, answer \in MonitorAnswers,
          probe \in ReplicaProbes :
         NodeActiveStep(p, reached, answer, probe)
    /\ UNCHANGED << clock, pidfile, statefile, configfile, pgRunning, writers,
                    otherSide, httpd, destroy >>

\* CHECK_FOR_FAST_SHUTDOWN (line 268), then lines 285-294 with the outcome of
\* the test of line 285; a failure of keeper_ensure_current_state is logged
EnsureStep(p, wanted) ==
    LET k == keeper[p] IN
    /\ k.pc = "ensure"
    /\ \E ok \in BOOLEAN :
         IF FastShutdown(k)
         THEN /\ keeper' = [ keeper EXCEPT ![p] = Break(k, "barrier_monitor") ]
              /\ UNCHANGED pgRunning
         ELSE IF wanted
         THEN /\ keeper' = [ keeper EXCEPT ![p] =
                    [ k EXCEPT !.tick.ensured = TRUE,
                               !.tick.ensureFailed = ~ ok,
                               !.pc = "transition" ] ]
              /\ pgRunning' = keeper_ensure_current_state(k.state, pgRunning, ok)
         ELSE /\ keeper' = [ keeper EXCEPT ![p] =
                    [ k EXCEPT !.pc = "transition" ] ]
              /\ UNCHANGED pgRunning
    /\ UNCHANGED << clock, pidfile, statefile, configfile, writers, otherSide,
                    httpd, destroy >>

\* a faulty variant of line 285: the current state is enforced in every tick
EnsureCurrentStateAlways(p) == EnsureStep(p, TRUE)

\* CHECK_FOR_FAST_SHUTDOWN (line 268), then keeper_ensure_current_state when
\* the monitor was reached
EnsureCurrentState(p) == EnsureStep(p, keeper[p].couldContactMonitor)

\* lines 296-309, with the outcome of the CHECK_FOR_FAST_SHUTDOWN of line 296
TransitionStep(p, shutdown) ==
    LET k == keeper[p] IN
    /\ k.pc = "transition"
    /\ \E stepsOk \in BOOLEAN :
         LET r == keeper_fsm_reach_assigned_state(k.state, pgRunning, stepsOk)
         IN
         IF shutdown
         THEN /\ keeper' = [ keeper EXCEPT ![p] = Break(k, "barrier_ensure") ]
              /\ UNCHANGED pgRunning
         ELSE IF NeedStateChange(k.state)
         THEN /\ keeper' = [ keeper EXCEPT ![p] =
                    [ k EXCEPT !.needStateChange = TRUE,
                               !.transitionFailed = ~ r.ok,
                               !.tick.transitionTried = TRUE,
                               !.tick.transitionOk = r.ok,
                               !.tick.probeFailed = FALSE,
                               !.tick.ensureFailed = FALSE,
                               !.state = r.state,
                               !.pc = "store" ] ]
              /\ pgRunning' = r.pg
         ELSE /\ keeper' = [ keeper EXCEPT ![p] =
                    [ k EXCEPT !.tick.probeFailed = FALSE,
                               !.tick.ensureFailed = FALSE,
                               !.pc = "store" ] ]
              /\ UNCHANGED pgRunning
    /\ UNCHANGED << clock, pidfile, statefile, configfile, writers, otherSide,
                    httpd, destroy >>

\* a faulty variant of lines 296-309: no transition in a tick that did not
\* reach the monitor
ReachAssignedStateIfMonitorReached(p) ==
    IF keeper[p].couldContactMonitor
    THEN TransitionStep(p, FastShutdown(keeper[p]))
    ELSE /\ keeper[p].pc = "transition"
         /\ keeper' = [ keeper EXCEPT ![p].pc = "store" ]
         /\ UNCHANGED << clock, pidfile, statefile, configfile, pgRunning,
                         writers, otherSide, httpd, destroy >>

\* a faulty variant of lines 296-309: no CHECK_FOR_FAST_SHUTDOWN at line 296
ReachAssignedStateNoBarrier(p) == TransitionStep(p, FALSE)

\* CHECK_FOR_FAST_SHUTDOWN (line 296), then lines 298-309
ReachAssignedState(p) == TransitionStep(p, FastShutdown(keeper[p]))

\* keeper_store_state (lines 315-318): the state file becomes the in-memory
\* state, or the write fails and the file keeps its content
StoreStateWhen(p, called) ==
    LET k == keeper[p] IN
    /\ k.pc = "store"
    /\ IF called
       THEN \E ok \in BOOLEAN :
              /\ keeper' = [ keeper EXCEPT ![p] =
                     [ k EXCEPT !.transitionFailed = k.transitionFailed \/ ~ ok,
                                !.tick.storeCalls = k.tick.storeCalls + 1,
                                !.tick.stored = ok,
                                !.wroteUnderForeignPid =
                                    k.wroteUnderForeignPid
                                    \/ (ok /\ pidfile # k.start_pid),
                                !.storesUnderFastStop =
                                    IF k.asked_to_stop_fast
                                       /\ k.storesUnderFastStop < 2
                                    THEN k.storesUnderFastStop + 1
                                    ELSE k.storesUnderFastStop,
                                !.pc = "end_tick" ] ]
              /\ statefile' = IF ok THEN k.state ELSE statefile
              /\ writers' = IF ok THEN writers \cup { p } ELSE writers
       ELSE /\ keeper' = [ keeper EXCEPT ![p] = [ k EXCEPT !.pc = "end_tick" ] ]
            /\ UNCHANGED << statefile, writers >>
    /\ UNCHANGED << clock, pidfile, configfile, pgRunning, otherSide, httpd,
                    destroy >>

\* a faulty variant of line 315: no keeper_store_state after a failed transition
StoreStateUnlessFailed(p) == StoreStateWhen(p, ~ keeper[p].transitionFailed)

\* line 315: keeper_store_state is called in every tick that comes this far
StoreState(p) == StoreStateWhen(p, TRUE)

\* a faulty variant of lines 320-329: keepRunning = false after every tick,
\* asked to stop or not
EndTickOnce(p) ==
    LET k == keeper[p] IN
    /\ k.pc = "end_tick"
    /\ keeper' = [ keeper EXCEPT ![p] =
           [ k EXCEPT !.doSleep = IF MadeProgress(k) THEN FALSE ELSE k.doSleep,
                      !.keepRunning = FALSE,
                      !.endMonitorContact = k.state.last_monitor_contact,
                      !.endSecondaryContact = k.state.last_secondary_contact,
                      !.endStored = k.tick.stored,
                      !.endRole = k.state.current_role,
                      !.tick = FreshTick,
                      !.pc = "top" ] ]
    /\ UNCHANGED << clock, pidfile, statefile, configfile, pgRunning, writers,
                    otherSide, httpd, destroy >>

\* lines 320-329: cycle faster after a transition; keepRunning = false when
\* asked to stop.  The iteration is over: its observations are dropped.
EndTick(p) ==
    LET k == keeper[p] IN
    /\ k.pc = "end_tick"
    /\ keeper' = [ keeper EXCEPT ![p] =
           [ k EXCEPT !.doSleep = IF MadeProgress(k) THEN FALSE ELSE k.doSleep,
                      !.keepRunning =
                          IF StopRequested(k) THEN FALSE ELSE k.keepRunning,
                      !.endMonitorContact = k.state.last_monitor_contact,
                      !.endSecondaryContact = k.state.last_secondary_contact,
                      !.endStored = k.tick.stored,
                      !.endRole = k.state.current_role,
                      !.tick = FreshTick,
                      !.pc = "top" ] ]
    /\ UNCHANGED << clock, pidfile, statefile, configfile, pgRunning, writers,
                    otherSide, httpd, destroy >>

\* keeper_start_node_active_process, in the child, after keeper_service_run
\* has returned
ChildExit(p) ==
    LET k == keeper[p] IN
    /\ k.pc = "returned"
    /\ keeper' = [ keeper EXCEPT ![p] =
           [ k EXCEPT !.exitCode =
                 IF k.asked_to_stop \/ k.asked_to_stop_fast
                 THEN EXIT_CODE_QUIT ELSE EXIT_CODE_INTERNAL_ERROR,
               !.pc = "exited" ] ]
    /\ UNCHANGED << clock, pidfile, statefile, configfile, pgRunning, writers,
                    otherSide, httpd, destroy >>

\* the steps of the loop of process p
KeeperStep(p) ==
    \/ LoopTop(p)
    \/ ReloadConfiguration(p)
    \/ ReloadDone(p)
    \/ CheckStop(p)
    \/ PidCheck(p)
    \/ LoadState(p)
    \/ LoadFailed(p)
    \/ UpdatePgState(p)
    \/ NodeActive(p)
    \/ EnsureCurrentState(p)
    \/ ReachAssignedState(p)
    \/ StoreState(p)
    \/ EndTick(p)
    \/ ChildExit(p)

(***************************************************************************)
(* The environment: time, signals, the operator.                           *)
(***************************************************************************)
Tick ==
    /\ clock < MaxTime
    /\ \E p \in DOMAIN keeper : keeper[p].pc \in { "top", "monitor" }
    /\ clock' = clock + 1
    /\ UNCHANGED << pidfile, statefile, configfile, pgRunning, writers, keeper,
                    otherSide, httpd, destroy >>

\* SIGTERM, SIGINT or SIGQUIT, SIGHUP are delivered to a running process
SigTerm(p) ==
    /\ keeper[p].pc # "exited"
    /\ ~ keeper[p].asked_to_stop
    /\ keeper' = [ keeper EXCEPT ![p].asked_to_stop = TRUE ]
    /\ UNCHANGED << clock, pidfile, statefile, configfile, pgRunning, writers,
                    otherSide, httpd, destroy >>

SigQuit(p) ==
    /\ keeper[p].pc # "exited"
    /\ ~ keeper[p].asked_to_stop_fast
    /\ keeper' = [ keeper EXCEPT ![p].asked_to_stop_fast = TRUE ]
    /\ UNCHANGED << clock, pidfile, statefile, configfile, pgRunning, writers,
                    otherSide, httpd, destroy >>

SigHup(p) ==
    /\ keeper[p].pc = "top"
    /\ ~ keeper[p].asked_to_reload
    /\ keeper' = [ keeper EXCEPT ![p].asked_to_reload = TRUE,
                                 ![p].hupSinceRead = TRUE ]
    /\ UNCHANGED << clock, pidfile, statefile, configfile, pgRunning, writers,
                    otherSide, httpd, destroy >>

\* An operator overwrites the PID file with another PID.  The loop reads the
\* PID file in PidCheck only, and StoreState is where a write under a stolen
\* PID file shows: an overwrite at any other moment is an overwrite just
\* before the next of these two steps.
StealPid ==
    /\ pidfile \in DOMAIN keeper
    /\ \E p \in DOMAIN keeper : keeper[p].pc \in { "pid_check", "store" }
    /\ pidfile' = ForeignPid
    /\ UNCHANGED << clock, statefile, configfile, pgRunning, writers, keeper,
                    otherSide, httpd, destroy >>

\* An operator removes the PID file.
RemovePid ==
    /\ pidfile \in DOMAIN keeper
    /\ \E p \in DOMAIN keeper : keeper[p].pc = "pid_check"
    /\ pidfile' = NoPidFile
    /\ UNCHANGED << clock, statefile, configfile, pgRunning, writers, keeper,
                    otherSide, httpd, destroy >>

Next ==
    \/ KeeperStep(FirstPid)
    \/ SigTerm(FirstPid)
    \/ SigQuit(FirstPid)
    \/ SigHup(FirstPid)
    \/ Tick
    \/ StealPid
    \/ RemovePid

Spec == Init /\ [][Next]_vars

(***************************************************************************)
(* A network partition: the primary's keeper, with the monitor and a       *)
(* standby that reach the primary until their links are lost, and promote  *)
(* the standby once they have not heard from the primary for more than     *)
(* network_partition_timeout.                                              *)
(***************************************************************************)
\* the link to the monitor, or the link to the standby, is lost for good
LoseLink(link) ==
    /\ otherSide[link]
    /\ otherSide' =
         [ otherSide EXCEPT
             ![link] = FALSE,
             !.lastHeard = IF \A l \in { "monitorLink", "standbyLink" } \ { link } :
                                ~ otherSide[l]
                           THEN clock ELSE otherSide.lastHeard ]
    /\ UNCHANGED << clock, pidfile, statefile, configfile, pgRunning, writers,
                    keeper, httpd, destroy >>

LoseMonitor == LoseLink("monitorLink")

LoseStandby == LoseLink("standbyLink")

\* monitor_node_active succeeds iff the monitor is reached, and the monitor
\* keeps the node primary; primary_has_replica finds the standby iff it is
\* connected
NodeActiveLinked(p) ==
    /\ \E probe \in ReplicaProbes :
         /\ ( probe = "connected" ) <=> otherSide.standbyLink
         /\ NodeActiveStep(p, otherSide.monitorLink, PRIMARY_STATE, probe)
    /\ UNCHANGED << clock, pidfile, statefile, configfile, pgRunning, writers,
                    otherSide, httpd, destroy >>

\* The other side promotes the standby.  It waits for more than the timeout
\* after it last heard from the primary, and then for the primary's keeper to
\* finish a tick whose partition check ran after that wait, in which no
\* transition failed and whose state is written.
Promote(p) ==
    LET k == keeper[p]
        tau == k.config.network_partition_timeout
    IN  /\ ~ otherSide.promoted
        /\ ~ otherSide.monitorLink
        /\ ~ otherSide.standbyLink
        /\ clock - otherSide.lastHeard > tau
        /\ k.pc = "end_tick"
        /\ k.tick.probe \in { "absent", "failed" }
        /\ k.tick.healthNow - otherSide.lastHeard > tau
        /\ k.tick.transitionTried => k.tick.transitionOk
        /\ k.tick.stored
        /\ otherSide' = [ otherSide EXCEPT !.promoted = TRUE ]
        /\ UNCHANGED << clock, pidfile, statefile, configfile, pgRunning,
                        writers, keeper, httpd, destroy >>

NextPartition ==
    \/ LoopTop(FirstPid)
    \/ CheckStop(FirstPid)
    \/ PidCheck(FirstPid)
    \/ LoadState(FirstPid)
    \/ LoadFailed(FirstPid)
    \/ UpdatePgState(FirstPid)
    \/ NodeActiveLinked(FirstPid)
    \/ EnsureCurrentState(FirstPid)
    \/ ReachAssignedState(FirstPid)
    \/ StoreState(FirstPid)
    \/ EndTick(FirstPid)
    \/ ChildExit(FirstPid)
    \/ SigTerm(FirstPid)
    \/ Tick
    \/ LoseMonitor
    \/ LoseStandby
    \/ Promote(FirstPid)

SpecPartition == Init /\ [][NextPartition]_vars

(***************************************************************************)
(* Two keeper processes on the same PGDATA: the PID file holds the PID of  *)
(* the first, and the second enters keeper_service_run with its own PID.   *)
(***************************************************************************)
InitTwo ==
    /\ InitShared
    /\ pidfile = FirstPid
    /\ keeper = [ p \in { FirstPid, SecondPid } |-> InitialProcess(p) ]

\* the steps of the two loops in every order, and a graceful stop of the
\* first; the clock stands still (no step of the PID guard reads it)
NextTwo ==
    \/ \E p \in DOMAIN keeper : KeeperStep(p)
    \/ SigTerm(FirstPid)

SpecTwo == InitTwo /\ [][NextTwo]_vars

(***************************************************************************)
(* Properties of the loop under Spec.  The steps of one iteration that      *)
(* follow keeper_load_state are at pc "probe", "monitor", "ensure",         *)
(* "transition", "store", "end_tick".                                       *)
(***************************************************************************)

C3_RoleAdvancesOnlyOnSuccess ==
    LET k == keeper[FirstPid]
    IN  k.tick.loaded =>
          /\ k.tick.transitionOk =>
               k.state.current_role = k.state.assigned_role
          /\ ~ k.tick.transitionOk =>
               k.state.current_role = k.tick.loadedState.current_role

\* C3: the current_role of the state file changes only in a tick whose
\* transition succeeded, and then to the assigned_role; and a tick switches the
\* next sleep off (it is treated as progress) only if its transition and its
\* write of the state file both succeeded
C3_NoFalseProgress ==
    LET k == keeper[FirstPid]
        k2 == keeper'[FirstPid]
    IN  /\ statefile'.current_role # statefile.current_role =>
              /\ k.tick.transitionOk
              /\ statefile'.current_role = statefile'.assigned_role
        /\ ( k.pc = "end_tick" /\ k2.pc = "top" /\ ~ k2.doSleep ) =>
              /\ k.tick.transitionOk
              /\ k.tick.stored

\* C3: current_role only advances by a successful transition, and a failed
\* transition is never treated as progress
C3_CurrentRoleOnlyAdvancesBySuccess ==
    [] C3_RoleAdvancesOnlyOnSuccess /\ [][C3_NoFalseProgress]_vars

\* C3: a tick whose transition failed has come to its end
C3_Witness ==
    LET k == keeper[FirstPid]
    IN  /\ k.pc = "end_tick"
        /\ k.tick.transitionTried
        /\ ~ k.tick.transitionOk
        /\ k.state.assigned_role # k.state.current_role

\* C4: a tick reads, reports or writes state only after it has read the PID
\* file and seen start_pid in it; a tick that saw the PID file missing or with
\* another PID has exited with EXIT_CODE_QUIT at once: no keeper_load_state,
\* monitor call, transition or keeper_store_state
C4_PidGuardPerTick ==
    LET k == keeper[FirstPid]
    IN  /\ ( \/ k.pc \in { "load", "load_failed", "probe", "monitor", "ensure",
                           "transition", "store", "end_tick" }
             \/ k.tick.loaded
             \/ k.tick.monitorCalled
             \/ k.tick.transitionTried
             \/ k.tick.storeCalls > 0 ) =>
              /\ k.tick.pidChecked
              /\ k.tick.pidSeen = k.start_pid
        /\ ( k.tick.pidChecked /\ k.tick.pidSeen # k.start_pid ) =>
              /\ k.pc = "exited"
              /\ k.exitAt = "pidfile"
              /\ k.exitCode = EXIT_CODE_QUIT
              /\ ~ k.tick.loaded
              /\ ~ k.tick.monitorCalled
              /\ ~ k.tick.ensured
              /\ ~ k.tick.transitionTried
              /\ k.tick.storeCalls = 0

\* C4: a tick after the first has slept and then found the PID file missing
C4_Witness ==
    LET k == keeper[FirstPid]
    IN  /\ k.pc = "exited"
        /\ k.exitAt = "pidfile"
        /\ k.tick.slept
        /\ k.tick.pidSeen = NoPidFile
        /\ FirstPid \in writers

\* C5: the keeper never writes the state file while the PID file holds
\* another PID
C5_NoWriteAfterPidSteal ==
    ~ keeper[FirstPid].wroteUnderForeignPid

\* C5: the PID file was overwritten before the PID check of a tick, and the
\* keeper has exited there without a write under the other PID
C5_Witness ==
    LET k == keeper[FirstPid]
    IN  /\ k.pc = "exited"
        /\ k.exitAt = "pidfile"
        /\ k.exitCode = EXIT_CODE_QUIT
        /\ k.tick.pidSeen = ForeignPid
        /\ ~ k.wroteUnderForeignPid

\* C7, as the specification words it: the contact times held in memory at
\* the end of a tick are not below those held at the end of the tick before
C7_InMemoryContactsNeverDecrease ==
    LET k == keeper[FirstPid]
    IN  k.pc = "end_tick" =>
          /\ k.state.last_monitor_contact >= k.endMonitorContact
          /\ k.state.last_secondary_contact >= k.endSecondaryContact

\* C7: the contact times of the state file never decrease
C7_PersistedContactsStep ==
    /\ statefile'.last_monitor_contact >= statefile.last_monitor_contact
    /\ statefile'.last_secondary_contact >= statefile.last_secondary_contact

\* C7: at the end of a tick that follows a tick whose state write succeeded,
\* the contact times held in memory are not below those of that tick, and at
\* the end of every tick they are not below those of the state file
C7_InMemoryContactsAfterStoredTick ==
    LET k == keeper[FirstPid]
    IN  k.pc = "end_tick" =>
          /\ k.endStored =>
               /\ k.state.last_monitor_contact >= k.endMonitorContact
               /\ k.state.last_secondary_contact >= k.endSecondaryContact
          /\ k.state.last_monitor_contact >= statefile.last_monitor_contact
          /\ k.state.last_secondary_contact >= statefile.last_secondary_contact
          /\ k.tick.stored =>
               /\ statefile.last_monitor_contact = k.state.last_monitor_contact
               /\ statefile.last_secondary_contact
                    = k.state.last_secondary_contact

\* C7, as the code has it: the persisted contact times are non-decreasing
\* across all ticks; those in memory at the end of a tick are non-decreasing
\* from a tick whose state write succeeded to the next, and are never below
\* the persisted ones
C7_ContactsNeverDecreaseOnDisk ==
    [] C7_InMemoryContactsAfterStoredTick /\ [][C7_PersistedContactsStep]_vars

\* C7: a tick whose write failed is followed by a tick that ends with a
\* larger last_monitor_contact, which it has written
C7_Witness ==
    LET k == keeper[FirstPid]
    IN  /\ k.pc = "end_tick"
        /\ ~ k.endStored
        /\ k.tick.stored
        /\ k.state.last_monitor_contact > k.endMonitorContact
        /\ k.state.last_secondary_contact > 0

\* C8, as the specification words it: keeper_store_state is never called
\* once asked_to_stop_fast is set
C8_NoStoreOnceFastStopIsSet ==
    keeper[FirstPid].storesUnderFastStop = 0

\* C8: a loop that returned from a barrier had asked_to_stop_fast set and has
\* not called keeper_store_state in that tick; keeper_store_state is called at
\* most once with asked_to_stop_fast set
C8_BarrierExitsWithoutStore ==
    LET k == keeper[FirstPid]
    IN  /\ k.exitAt \in { "barrier_pid", "barrier_load", "barrier_probe",
                          "barrier_monitor", "barrier_ensure" } =>
              /\ k.asked_to_stop_fast
              /\ k.tick.storeCalls = 0
        /\ k.storesUnderFastStop <= 1

\* C8: with asked_to_stop_fast set, the step after the PID check, after a
\* failed keeper_load_state, after the Postgres probe, after the monitor call
\* and after keeper_ensure_current_state leaves the loop; a tick that is past
\* these barriers ends with keepRunning false, and the loop returns
C8_BarrierStep ==
    LET k == keeper[FirstPid]
        k2 == keeper'[FirstPid]
    IN  ( k.asked_to_stop_fast /\ k2.pc # k.pc ) =>
          /\ k.pc \in { "load", "load_failed", "monitor", "ensure",
                        "transition" } =>
               /\ k2.pc = "returned"
               /\ k2.tick.storeCalls = 0
               /\ statefile' = statefile
          /\ k.pc = "store" => k2.pc = "end_tick"
          /\ k.pc = "end_tick" => ( k2.pc = "top" /\ ~ k2.keepRunning )
          /\ ( k.pc = "top" /\ ~ k.keepRunning ) => k2.pc = "returned"

\* C8, as the code has it: asked_to_stop_fast is checked after the PID check,
\* after a failed state read, after the Postgres probe, after the monitor call
\* and after keeper_ensure_current_state, and not after the transition; set
\* before one of these barriers it ends the loop there with no
\* keeper_store_state; set after the last of them, the tick still calls
\* keeper_store_state once, and the loop ends with that tick
C8_FastStopAtBarriers ==
    [] C8_BarrierExitsWithoutStore /\ [][C8_BarrierStep]_vars

\* C8: asked_to_stop_fast has ended the loop at the barrier that follows
\* keeper_ensure_current_state
C8_Witness ==
    LET k == keeper[FirstPid]
    IN  /\ k.pc = "returned"
        /\ k.exitAt = "barrier_ensure"
        /\ k.tick.ensured
        /\ ~ k.asked_to_stop

\* C9: a loop that left at line 141 had asked_to_stop set and has, in that
\* iteration, not slept, not read the PID file and not touched state; a loop
\* that is no longer running and was never asked to stop fast left at line
\* 141, at the while test after a whole tick, or by the PID guard
C9_StopAtTopTouchesNothing ==
    LET k == keeper[FirstPid]
    IN  /\ k.exitAt = "asked_to_stop" =>
              /\ k.asked_to_stop
              /\ ~ k.tick.slept
              /\ ~ k.tick.pidChecked
              /\ ~ k.tick.loaded
              /\ ~ k.tick.monitorCalled
              /\ k.tick.storeCalls = 0
        /\ ( k.pc \in { "returned", "exited" } /\ ~ k.asked_to_stop_fast ) =>
              k.exitAt \in { "asked_to_stop", "while", "pidfile" }
        /\ ( k.exitAt = "while" /\ ~ k.asked_to_stop_fast ) => k.asked_to_stop

\* C9: with asked_to_stop set and asked_to_stop_fast not, every step of a tick
\* is followed by the step that follows it without the signal, through
\* keeper_store_state; the tick ends with keepRunning false, and the loop then
\* returns without another iteration
C9_GracefulStep ==
    LET k == keeper[FirstPid]
        k2 == keeper'[FirstPid]
    IN  ( k.asked_to_stop /\ ~ k.asked_to_stop_fast /\ k2.pc # k.pc ) =>
          /\ k.pc = "pid_check" => k2.pc \in { "load", "exited" }
          /\ k.pc = "load" => k2.pc \in { "probe", "load_failed" }
          /\ k.pc = "load_failed" => k2.pc = "top"
          /\ k.pc = "probe" => k2.pc = "monitor"
          /\ k.pc = "monitor" => k2.pc = "ensure"
          /\ k.pc = "ensure" => k2.pc = "transition"
          /\ k.pc = "transition" => k2.pc = "store"
          /\ k.pc = "store" =>
               ( k2.pc = "end_tick" /\ k2.tick.storeCalls = 1 )
          /\ k.pc = "end_tick" => ( k2.pc = "top" /\ ~ k2.keepRunning )
          /\ ( k.pc = "top" /\ ~ k.keepRunning ) =>
               ( k2.pc = "returned" /\ k2.exitAt = "while" )
          /\ k.pc = "stop_check" =>
               ( k2.pc = "returned" /\ k2.exitAt = "asked_to_stop" )

\* C9: asked_to_stop does not interrupt a tick: the tick runs through
\* keeper_store_state and the loop then exits; asked_to_stop seen at the top of
\* an iteration ends the loop before the sleep, the PID check and any state
C9_GracefulStop ==
    [] C9_StopAtTopTouchesNothing /\ [][C9_GracefulStep]_vars

\* C9: a loop asked to stop in the middle of a tick has returned at the while
\* test, its last tick written
C9_Witness ==
    LET k == keeper[FirstPid]
    IN  /\ k.pc = "returned"
        /\ k.exitAt = "while"
        /\ k.asked_to_stop
        /\ ~ k.asked_to_stop_fast
        /\ k.endStored
        /\ FirstPid \in writers

\* C10: keeper_store_state is called at most once in a tick, not before the
\* transition step is over, and has been called once at the end of a tick; a
\* loop that stopped in a tick that had loaded the state without having called
\* it stopped at a barrier, asked to stop fast; a successful call leaves the
\* in-memory state in the state file
C10_StoreOncePerTick ==
    LET k == keeper[FirstPid]
    IN  /\ k.tick.storeCalls <= 1
        /\ k.pc \in { "load", "load_failed", "probe", "monitor", "ensure",
                      "transition", "store" } => k.tick.storeCalls = 0
        /\ k.pc = "end_tick" => ( k.tick.storeCalls = 1 /\ k.tick.loaded )
        /\ ( k.pc \in { "returned", "exited" } /\ k.tick.loaded ) =>
              /\ k.tick.storeCalls = 0
              /\ k.asked_to_stop_fast
              /\ k.exitAt \in { "barrier_probe", "barrier_monitor",
                                "barrier_ensure" }
        /\ ( k.pc = "end_tick" /\ k.tick.stored ) => statefile = k.state

\* C10: a tick that has loaded the state ends only after its call of
\* keeper_store_state, unless the loop returns
C10_LoadedTickEndsWithStore ==
    LET k == keeper[FirstPid]
        k2 == keeper'[FirstPid]
    IN  ( k.tick.loaded /\ k2.pc = "top" /\ k.pc # "top" ) =>
          ( k.pc = "end_tick" /\ k.tick.storeCalls = 1 )

\* C10: every tick that loaded the state and was not cut short by a fast stop
\* calls keeper_store_state exactly once, at its end, whatever the monitor
\* call and the transition did
C10_StoreExactlyOnce ==
    [] C10_StoreOncePerTick /\ [][C10_LoadedTickEndsWithStore]_vars

\* C10: a tick that did not reach the monitor and whose transition failed
\* has written its state
C10_Witness ==
    LET k == keeper[FirstPid]
    IN  /\ k.pc = "end_tick"
        /\ ~ k.couldContactMonitor
        /\ k.tick.transitionTried
        /\ ~ k.tick.transitionOk
        /\ k.tick.stored
        /\ statefile.assigned_role = DEMOTE_TIMEOUT_STATE

(***************************************************************************)
(* Properties under SpecPartition and SpecTwo.                              *)
(***************************************************************************)

\* C1: at most one primary: in no state is the old primary's Postgres still
\* running while the other side has promoted the standby
C1_AtMostOnePrimary ==
    ~ ( pgRunning /\ otherSide.promoted )

\* C1: the old primary still runs beside a promoted standby only when the
\* state file has never recorded a contact with a standby
C1_SplitBrainOnlyWithoutSecondaryContact ==
    ( pgRunning /\ otherSide.promoted ) =>
        statefile.last_secondary_contact = 0

\* C1: the keeper has withdrawn before the other side promoted
C1_Witness ==
    /\ otherSide.promoted
    /\ ~ pgRunning
    /\ statefile.current_role = DEMOTE_TIMEOUT_STATE

C11_NoTransitionAfterError ==
    [][ LET k == keeper[FirstPid]
            k2 == keeper'[FirstPid]
        IN  ( /\ k.pc = "transition"
              /\ k2.pc = "store"
              /\ \/ k.tick.probeFailed
                 \/ ~ k.couldContactMonitor
                 \/ k.tick.ensureFailed ) => ~ k2.tick.transitionTried ]_vars

\* C11: the step of lines 296-309, when it does not leave the loop, calls
\* keeper_fsm_reach_assigned_state exactly when assigned_role differs from
\* current_role
C11_TransitionStep ==
    LET k == keeper[FirstPid]
        k2 == keeper'[FirstPid]
    IN  ( k.pc = "transition" /\ k2.pc # "transition" ) =>
          \/ k2.pc = "returned" /\ k.asked_to_stop_fast
          \/ /\ k2.pc = "store"
             /\ k2.tick.transitionTried <=>
                  k.state.assigned_role # k.state.current_role

\* C11: a failed probe, an unreachable monitor and a failed
\* keeper_ensure_current_state each leave the tick at the transition step
C11_ErrorsDoNotEndTheTick ==
    LET k == keeper[FirstPid]
    IN  ( \/ k.tick.probeFailed
          \/ k.tick.ensureFailed
          \/ k.tick.monitorCalled /\ ~ k.couldContactMonitor ) =>
            \/ k.pc \in { "monitor", "ensure", "transition", "store",
                          "end_tick" }
            \/ k.pc \in { "returned", "exited" } /\ k.asked_to_stop_fast

\* C11, as the code has it: a failed Postgres probe, an unreachable monitor
\* and a failed keeper_ensure_current_state are logged and do not end the
\* tick; the tick attempts a transition exactly when, after the monitor step,
\* assigned_role differs from current_role, whether or not one of these errors
\* occurred in it
C11_TransitionAttemptedDespiteErrors ==
    [] C11_ErrorsDoNotEndTheTick /\ [][C11_TransitionStep]_vars

\* C11: a tick whose probe failed and that did not reach the monitor is about
\* to attempt the transition to DEMOTE_TIMEOUT
C11_Witness ==
    LET k == keeper[FirstPid]
    IN  /\ k.pc = "transition"
        /\ k.tick.probeFailed
        /\ ~ k.couldContactMonitor
        /\ ~ k.asked_to_stop_fast
        /\ k.state.current_role = PRIMARY_STATE
        /\ k.state.assigned_role = DEMOTE_TIMEOUT_STATE

\* C12, as the specification words it: a tick in which the two roles are equal
\* after the monitor step has called keeper_ensure_current_state
C12_TieBreakAlwaysEnsures ==
    LET k == keeper[FirstPid]
    IN  ( /\ k.pc = "transition"
          /\ k.state.current_role = k.state.assigned_role ) => k.tick.ensured

\* C12: with equal roles, keeper_ensure_current_state has been called exactly
\* when the monitor was reached in that tick
C12_TieBreakEnsuresWhenReached ==
    LET k == keeper[FirstPid]
    IN  ( /\ k.pc = "transition"
          /\ k.state.current_role = k.state.assigned_role ) =>
            ( k.tick.ensured <=> k.couldContactMonitor )

\* C12: with equal roles the step of lines 296-309 calls no transition and
\* leaves the keeper state and Postgres as they are
C12_TieBreakStep ==
    LET k == keeper[FirstPid]
        k2 == keeper'[FirstPid]
    IN  ( /\ k.pc = "transition"
          /\ k2.pc = "store"
          /\ k.state.current_role = k.state.assigned_role ) =>
            /\ ~ k2.tick.transitionTried
            /\ ~ k2.tick.transitionOk
            /\ k2.state = k.state
            /\ pgRunning' = pgRunning

\* C12, as the code has it: in every tick where, after the monitor step,
\* current_role equals assigned_role, keeper_fsm_reach_assigned_state is not
\* called; keeper_ensure_current_state is called in that tick exactly when
\* monitor_node_active succeeded in it
C12_TieBreak ==
    [] C12_TieBreakEnsuresWhenReached /\ [][C12_TieBreakStep]_vars

\* C12: a tick with equal roles that reached the monitor and has called
\* keeper_ensure_current_state is past the transition step without a transition
C12_Witness ==
    LET k == keeper[FirstPid]
    IN  /\ k.pc = "store"
        /\ k.state.current_role = k.state.assigned_role
        /\ k.couldContactMonitor
        /\ k.tick.ensured
        /\ ~ k.tick.transitionTried

\* C13: once a tick is past line 294, keeper_ensure_current_state has been
\* called in it exactly when monitor_node_active succeeded in it; before that
\* line, and in a tick that a fast stop has cut short before it, it has not
\* been called; it has been called before any transition attempt
C13_EnsuredIffMonitorReached ==
    LET k == keeper[FirstPid]
    IN  /\ k.pc \in { "transition", "store", "end_tick" } =>
             ( k.tick.ensured <=> k.couldContactMonitor )
        /\ k.tick.ensured =>
             ( k.tick.monitorCalled /\ k.pc \notin { "monitor", "ensure" } )
        /\ ( k.pc = "returned" /\ k.exitAt = "barrier_monitor" ) =>
             ~ k.tick.ensured
        /\ k.tick.transitionTried =>
             ( k.tick.ensured <=> k.couldContactMonitor )

\* C13: keeper_ensure_current_state is called by the step of lines 268-294
\* only, which comes before the transition step; that step leaves Postgres as
\* it is when the monitor was not reached or a fast stop was asked for
C13_EnsureStep ==
    LET k == keeper[FirstPid]
        k2 == keeper'[FirstPid]
    IN  /\ ( ~ k.tick.ensured /\ k2.tick.ensured ) =>
             /\ k.pc = "ensure"
             /\ k2.pc = "transition"
             /\ k.couldContactMonitor
             /\ ~ k.asked_to_stop_fast
             /\ ~ k2.tick.transitionTried
        /\ ( k.pc = "ensure" /\ k2.pc # "ensure" /\ ~ k.couldContactMonitor ) =>
             /\ pgRunning' = pgRunning
             /\ ~ k2.tick.ensured
        /\ ( k.pc = "ensure" /\ k2.pc # "ensure" /\ k.asked_to_stop_fast ) =>
             /\ pgRunning' = pgRunning
             /\ k2.pc = "returned"

\* C13: keeper_ensure_current_state is called in a tick if and only if
\* monitor_node_active succeeded in that tick and no fast stop cut the tick
\* short; the call comes before the transition attempt; a tick that did not
\* reach the monitor does not start or stop Postgres at lines 268-294
C13_EnsureOnlyAfterMonitorContact ==
    [] C13_EnsuredIffMonitorReached /\ [][C13_EnsureStep]_vars

\* C13: a tick that did not reach the monitor attempted a transition without
\* having enforced its current state
C13_Witness ==
    LET k == keeper[FirstPid]
    IN  /\ k.pc = "store"
        /\ k.tick.monitorCalled
        /\ ~ k.couldContactMonitor
        /\ ~ k.tick.ensured
        /\ k.tick.transitionTried

\* C14: in a tick where monitor_node_active failed, last_monitor_contact is
\* the value loaded from the state file, and assigned_role is the loaded value
\* unless the loaded current_role is PRIMARY and the partition detector
\* reported a partition, in which case it is DEMOTE_TIMEOUT
C14_AssignmentHeldWithoutMonitor ==
    LET k == keeper[FirstPid]
        loaded == k.tick.loadedState
        partition ==
            /\ loaded.current_role = PRIMARY_STATE
            /\ k.tick.probe # "connected"
            /\ in_network_partition(loaded, k.tick.healthNow,
                                    k.config.network_partition_timeout)
    IN  ( k.tick.monitorCalled /\ ~ k.couldContactMonitor ) =>
          /\ k.state.last_monitor_contact = loaded.last_monitor_contact
          /\ k.tick.overrode <=> partition
          /\ k.state.assigned_role =
               IF partition THEN DEMOTE_TIMEOUT_STATE ELSE loaded.assigned_role

\* C14: a tick that did not reach the monitor holds an assignment that differs
\* from its current role; a later tick without monitor contact, at a later
\* time, keeps both the assignment and last_monitor_contact
C14_Witness ==
    LET k == keeper[FirstPid]
    IN  /\ k.pc = "ensure"
        /\ k.tick.monitorCalled
        /\ ~ k.couldContactMonitor
        /\ ~ k.tick.overrode
        /\ k.state.assigned_role = WAIT_PRIMARY_STATE
        /\ k.state.current_role = PRIMARY_STATE
        /\ k.state.last_monitor_contact < k.now

\* C16, as the specification words it: the first tick sleeps, and a tick is
\* followed by a tick without sleep exactly when its transition succeeded
C16_SleepUnlessTransition ==
    /\ keeper[FirstPid].doSleep
    /\ [][ LET k == keeper[FirstPid]
               k2 == keeper'[FirstPid]
           IN  ( k.pc = "end_tick" /\ k2.pc = "top" ) =>
                 ( k2.doSleep <=> ~ k.tick.transitionOk ) ]_vars

\* C16: lines 144-149 sleep exactly when doSleep is set and then set it; the
\* end of a tick clears it exactly when a transition was needed, succeeded and
\* keeper_store_state succeeded; no other step changes it
C16_SleepStep ==
    LET k == keeper[FirstPid]
        k2 == keeper'[FirstPid]
    IN  /\ ( k.pc = "stop_check" /\ k2.pc = "pid_check" ) =>
             /\ k2.tick.slept <=> k.doSleep
             /\ k2.doSleep
        /\ ( k.pc = "end_tick" /\ k2.pc = "top" ) =>
             /\ k.doSleep
             /\ k2.doSleep <=> ~ ( /\ k.tick.transitionTried
                                   /\ k.tick.transitionOk
                                   /\ k.tick.stored )
        /\ ( k.pc = "load" /\ k2.pc = "top" ) => k2.doSleep
        /\ k2.doSleep # k.doSleep =>
             \/ k.pc = "stop_check" /\ k2.pc = "pid_check"
             \/ k.pc = "end_tick" /\ k2.pc = "top"
        /\ k2.tick.slept # k.tick.slept =>
             \/ k.pc = "stop_check" /\ k2.pc = "pid_check"
             \/ ~ k2.tick.slept

\* C16, as the code has it: the first tick of the service does not sleep; a
\* later tick sleeps before its work unless the tick before it needed a state
\* change, made the transition and stored the state, in which case it starts
\* without sleeping; a tick whose transition succeeded and whose
\* keeper_store_state failed is followed by a sleep
C16_SleepPolicy ==
    /\ ~ keeper[FirstPid].doSleep
    /\ [][C16_SleepStep]_vars

\* C16: a tick that follows a stored transition away from PRIMARY starts
\* without sleeping
C16_Witness ==
    LET k == keeper[FirstPid]
    IN  /\ k.pc = "pid_check"
        /\ ~ k.tick.slept
        /\ statefile.current_role # PRIMARY_STATE
        /\ FirstPid \in writers

(***************************************************************************)
(* Scenario S4: a primary whose monitor is unreachable in every tick and    *)
(* that has no connected standby.                                          *)
(***************************************************************************)
\* the state file of a running primary: the monitor answered at time 1, and
\* the standby was seen then or never (last_secondary_contact = 0)
InitS4 ==
    /\ clock = 1
    /\ \E lsc \in { 0, 1 } :
         statefile = [ InitialKeeperState EXCEPT !.last_secondary_contact = lsc ]
    /\ configfile = [ kind |-> "ok", formation |-> "default",
                      network_partition_timeout |-> PartitionTimeout ]
    /\ pgRunning = TRUE
    /\ writers = {}
    /\ otherSide = InitialOtherSide
    /\ httpd = InitialHttpd
    /\ destroy = InitialDestroy
    /\ pidfile = FirstPid
    /\ keeper = [ p \in { FirstPid } |-> InitialProcess(p) ]

\* monitor_node_active fails, and primary_has_replica fails or finds no standby
NodeActiveUnreachable(p) ==
    /\ \E probe \in { "absent", "failed" } :
         NodeActiveStep(p, FALSE, PRIMARY_STATE, probe)
    /\ UNCHANGED << clock, pidfile, statefile, configfile, pgRunning, writers,
                    otherSide, httpd, destroy >>

NextS4 ==
    \/ LoopTop(FirstPid)
    \/ CheckStop(FirstPid)
    \/ PidCheck(FirstPid)
    \/ LoadState(FirstPid)
    \/ LoadFailed(FirstPid)
    \/ UpdatePgState(FirstPid)
    \/ NodeActiveUnreachable(FirstPid)
    \/ EnsureCurrentState(FirstPid)
    \/ ReachAssignedState(FirstPid)
    \/ StoreState(FirstPid)
    \/ EndTick(FirstPid)
    \/ Tick

SpecS4 == InitS4 /\ [][NextS4]_vars

\* C15: in scenario S4, a tick that starts more than network_partition_timeout
\* after the last monitor contact (time 1), whose transition does not fail and
\* whose state is stored, ends with current_role = DEMOTE_TIMEOUT in the state
\* file and Postgres stopped, whatever last_secondary_contact was at the start
C15_DemotedAfterTimeout ==
    LET k == keeper[FirstPid]
    IN  ( /\ k.pc = "end_tick"
          /\ k.tick.monitorCalled
          /\ k.now - 1 > k.config.network_partition_timeout
          /\ k.tick.transitionTried => k.tick.transitionOk
          /\ k.tick.stored ) =>
            /\ statefile.current_role = DEMOTE_TIMEOUT_STATE
            /\ ~ pgRunning

\* C15: the primary whose state file had last_secondary_contact = 1 has
\* stopped Postgres and stored DEMOTE_TIMEOUT after the timeout
C15_Witness ==
    LET k == keeper[FirstPid]
    IN  /\ k.pc = "end_tick"
        /\ k.tick.overrode
        /\ k.tick.stored
        /\ statefile.last_secondary_contact = 1
        /\ statefile.current_role = DEMOTE_TIMEOUT_STATE
        /\ ~ pgRunning

(***************************************************************************)
(* Reload: an operator edits the configuration file and sends SIGHUP.       *)
(***************************************************************************)
\* the other value of network_partition_timeout an operator may write
OtherPartitionTimeout == PartitionTimeout + 1

\* what the configuration file can be: a file that keeper_config_read_file
\* reads and keeper_config_accept_new accepts, with its timeout and formation;
\* no file; a file that cannot be read; a file that is read and not accepted
ConfigFiles ==
    { [ kind |-> "ok", formation |-> f, network_partition_timeout |-> t ] :
        f \in { "default", "other" },
        t \in { PartitionTimeout, OtherPartitionTimeout } }
    \cup { [ kind |-> kind, formation |-> "default",
             network_partition_timeout |-> OtherPartitionTimeout ] :
           kind \in { "missing", "unreadable", "rejected" } }

\* the operator rewrites or removes the configuration file between two ticks
EditConfig ==
    /\ keeper[FirstPid].pc = "top"
    /\ \E file \in ConfigFiles \ { configfile } : configfile' = file
    /\ UNCHANGED << clock, pidfile, statefile, pgRunning, writers, keeper,
                    otherSide, httpd, destroy >>

NextReload ==
    \/ KeeperStep(FirstPid)
    \/ SigHup(FirstPid)
    \/ SigTerm(FirstPid)
    \/ EditConfig

SpecReload == Init /\ [][NextReload]_vars

\* C17: while reload_configuration runs nothing else of the tick has been
\* done, and the in-memory formation is the one the service started with
C17_ReloadComesFirst ==
    LET k == keeper[FirstPid]
    IN  /\ k.pc \in { "reload", "reload_done" } =>
             ( k.tick = FreshTick /\ k.asked_to_reload )
        /\ k.config.formation = InitialConfig.formation

\* C17: an iteration that finds asked_to_reload set goes to
\* reload_configuration first; reload_configuration leaves the in-memory
\* configuration as it is unless the file is there, read and accepted, touches
\* no file, and ends by clearing asked_to_reload with the loop going on to the
\* test of asked_to_stop; no other step changes the configuration
C17_ReloadStep ==
    LET k == keeper[FirstPid]
        k2 == keeper'[FirstPid]
    IN  /\ ( k.pc = "top" /\ k2.pc # "top" /\ k.keepRunning ) =>
             k2.pc = IF k.asked_to_reload THEN "reload" ELSE "stop_check"
        /\ ( k.pc = "reload" /\ k2.pc # "reload" ) =>
             /\ k2.pc = "reload_done"
             /\ configfile.kind # "ok" => k2.config = k.config
             /\ configfile.kind = "ok" =>
                  k2.config.network_partition_timeout =
                      configfile.network_partition_timeout
             /\ << pidfile, statefile, configfile, pgRunning, writers >>' =
                  << pidfile, statefile, configfile, pgRunning, writers >>
        /\ ( k.pc = "reload_done" /\ k2.pc # "reload_done" ) =>
             /\ k2.pc = "stop_check"
             /\ ~ k2.asked_to_reload
             /\ k2.keepRunning = k.keepRunning
             /\ k2.config = k.config
        /\ k2.config # k.config => ( k.pc = "reload" /\ configfile.kind = "ok" )

\* C17: the configuration file is re-read before anything else in a tick that
\* finds asked_to_reload set; a file that is missing, unreadable or not
\* accepted leaves the in-memory configuration unchanged; asked_to_reload is
\* cleared in every case and the loop continues
C17_ReloadKeepsConfigOnFailure ==
    [] C17_ReloadComesFirst /\ [][C17_ReloadStep]_vars

\* C17: a reload has taken the other timeout from an accepted file, and a
\* later reload of a file that is not accepted has left it in place and
\* cleared asked_to_reload
C17_Witness ==
    LET k == keeper[FirstPid]
    IN  /\ k.pc = "stop_check"
        /\ ~ k.asked_to_reload
        /\ configfile.kind = "rejected"
        /\ k.config.network_partition_timeout = OtherPartitionTimeout

(***************************************************************************)
(* The HTTP server (httpd_start): its routing table, httpd_dispatch and    *)
(* the handlers.  A response is the status given to wby_response_begin and  *)
(* the texts given to wby_write; a text is a sequence of strings.           *)
(***************************************************************************)
\* a dispatchFunction that is NULL
NULL == "NULL"

\* a faulty variant of KeeperRoutingTable: the NULL row comes before the last
\* route
KeeperRoutingTableCutShort ==
    << [ script |-> "/", dispatchFunction |-> "http_home" ],
       [ script |-> "/versions", dispatchFunction |-> "http_version" ],
       [ script |-> "/1.0/state", dispatchFunction |-> "http_state" ],
       [ script |-> "", dispatchFunction |-> NULL ],
       [ script |-> "/1.0/fsm/state", dispatchFunction |-> "http_fsm_state" ] >>

KeeperRoutingTable ==
    << [ script |-> "/", dispatchFunction |-> "http_home" ],
       [ script |-> "/versions", dispatchFunction |-> "http_version" ],
       [ script |-> "/1.0/state", dispatchFunction |-> "http_state" ],
       [ script |-> "/1.0/fsm/state", dispatchFunction |-> "http_fsm_state" ],
       [ script |-> "", dispatchFunction |-> NULL ] >>

\* the request URIs of the model: the four routes, the empty URI (the script
\* of the NULL row), and two URIs that are no route
RequestUris ==
    { "/", "/versions", "/1.0/state", "/1.0/fsm/state",
      "", "/nope", "/1.0/fsm/state/" }

\* what ProbeConfigurationFileRole answers
PG_AUTOCTL_ROLE_UNKNOWN == "unknown"
PG_AUTOCTL_ROLE_MONITOR == "monitor"
PG_AUTOCTL_ROLE_KEEPER == "keeper"

ConfigurationFileRoles ==
    { PG_AUTOCTL_ROLE_UNKNOWN, PG_AUTOCTL_ROLE_MONITOR, PG_AUTOCTL_ROLE_KEEPER }

\* how the allocations of keeper_fsm_as_json go: all succeed, createPQExpBuffer
\* returns NULL, or an append fails and leaves the buffer broken
Allocations == { "ok", "no_buffer", "broken" }

\* char buffer[BUFSIZE] of http_fsm_state before anything is written into it
UninitializedBuffer == << "uninitialized" >>

\* the JSON text keeper_fsm_as_json builds from the state it has read, member
\* by member: the object, the key, the printed value
FsmJson(keeperState) ==
    << "{",
       "postgres", "version", ToString(keeperState.pg_version),
       "postgres", "pg_control_version",
           ToString(keeperState.pg_control_version),
       "postgres", "system_identifier",
           ToString(keeperState.system_identifier),
       "fsm", "current_role", keeperState.current_role,
       "fsm", "assigned_role", keeperState.assigned_role,
       "monitor", "current_node_id", ToString(keeperState.current_node_id),
       "monitor", "current_groupd", ToString(keeperState.current_group),
       "}" >>

\* a faulty variant of keeper_fsm_as_json: a state file that cannot be read
\* makes it return false without writing into json
keeper_fsm_as_json_silent(json, readable, keeperState, alloc) ==
    IF ~ readable
    THEN [ ok |-> FALSE, json |-> json ]
    ELSE IF alloc # "ok"
    THEN [ ok |-> FALSE, json |-> << "Failed to allocate memory" >> ]
    ELSE [ ok |-> TRUE, json |-> FsmJson(keeperState) ]

\* keeper_fsm_as_json, as the pair of its return value and the content of json
\* when it returns; readable is the result of keeper_state_read and
\* keeperState what it read
keeper_fsm_as_json(json, readable, keeperState, alloc) ==
    IF ~ readable
    THEN [ ok |-> FALSE,
           json |-> << "Failed to read FSM state from ", "pathnames.state" >> ]
    ELSE IF alloc = "no_buffer"
    THEN [ ok |-> FALSE, json |-> << "Failed to allocate memory" >> ]
    ELSE IF alloc = "broken"
    THEN [ ok |-> FALSE, json |-> << "Failed to allocate memory" >> ]
    ELSE [ ok |-> TRUE, json |-> FsmJson(keeperState) ]

\* the responses http_fsm_state writes: pathnamesOk is the result of
\* keeper_config_set_pathnames_from_pgdata (a failure is answered and the
\* function goes on), role the answer of ProbeConfigurationFileRole, file the
\* state file as it is on disk; the 21 bytes written for a monitor are the
\* text and its terminating NUL
FsmStateResponses(pathnamesOk, role, readable, file, alloc) ==
    ( IF pathnamesOk THEN << >> ELSE << [ status |-> 503, body |-> << >> ] >> )
    \o
    ( IF role = PG_AUTOCTL_ROLE_MONITOR
      THEN << [ status |-> 503,
                body |-> << "Not yet implemented\n", "NUL" >> ] >>
      ELSE IF role = PG_AUTOCTL_ROLE_KEEPER
      THEN LET r == keeper_fsm_as_json(UninitializedBuffer, readable, file,
                                       alloc)
           IN  << [ status |-> IF r.ok THEN 200 ELSE 501, body |-> r.json ] >>
      ELSE << [ status |-> 503,
                body |-> << "Unrecognized configuration file ",
                            "pathnames.config" >> ] >> )

\* a faulty variant of http_fsm_state: the answer of an earlier request that
\* read the state is given again
http_fsm_state_cached(h, pathnamesOk, role, readable, file, alloc) ==
    IF h.handler = "http_fsm_state" /\ h.responses # << >>
       /\ h.responses[Len(h.responses)].status = 200
    THEN [ uri |-> "/1.0/fsm/state", handler |-> "http_fsm_state",
           result |-> 1, responses |-> h.responses ]
    ELSE [ uri |-> "/1.0/fsm/state", handler |-> "http_fsm_state",
           result |-> 1,
           responses |-> FsmStateResponses(pathnamesOk, role, readable, file,
                                           alloc) ]

\* http_fsm_state: config and state are read from scratch; returns true
http_fsm_state(h, pathnamesOk, role, readable, file, alloc) ==
    [ uri |-> "/1.0/fsm/state", handler |-> "http_fsm_state", result |-> 1,
      responses |-> FsmStateResponses(pathnamesOk, role, readable, file,
                                      alloc) ]

\* http_home, http_state, http_version: a fixed text; each returns true
http_home ==
    [ handler |-> "http_home", result |-> 1,
      responses |-> << [ status |-> 200, body |-> << "Hello, world!\n" >> ] >> ]

http_state ==
    [ handler |-> "http_state", result |-> 1,
      responses |-> << [ status |-> 200, body |-> << "Ok\n" >> ] >> ]

http_version ==
    [ handler |-> "http_version", result |-> 1,
      responses |->
          << [ status |-> 200,
               body |-> << "pg_auto_failover ", "PG_AUTOCTL_VERSION", "\n",
                           "pgautofailover extension ",
                           "PG_AUTOCTL_EXTENSION_VERSION", "\n",
                           "pg_auto_failover web API ",
                           "HTTPD_CURRENT_API_VERSION", "\n" >> ] >> ]

\* the loop of httpd_dispatch from row routingIndex on: the dispatchFunction
\* of the first row whose script is the URI, or NULL when the row with a NULL
\* dispatchFunction comes first
RECURSIVE RouteFrom(_, _)
RouteFrom(uri, routingIndex) ==
    LET RoutingTableEntry == KeeperRoutingTable[routingIndex]
    IN  IF RoutingTableEntry.dispatchFunction = NULL
        THEN NULL
        ELSE IF uri = RoutingTableEntry.script
        THEN RoutingTableEntry.dispatchFunction
        ELSE RouteFrom(uri, routingIndex + 1)

\* httpd_dispatch: the server after the request; 1 is returned for a URI that
\* is no route (404), and the handler's result otherwise
httpd_dispatch(h, uri, pathnamesOk, role, readable, file, alloc) ==
    LET dispatchFunction == RouteFrom(uri, 1)
    IN  IF dispatchFunction = "http_home"
        THEN [ uri |-> uri ] @@ http_home
        ELSE IF dispatchFunction = "http_version"
        THEN [ uri |-> uri ] @@ http_version
        ELSE IF dispatchFunction = "http_state"
        THEN [ uri |-> uri ] @@ http_state
        ELSE IF dispatchFunction = "http_fsm_state"
        THEN http_fsm_state(h, pathnamesOk, role, readable, file, alloc)
        ELSE [ uri |-> uri, handler |-> NULL, result |-> 1,
               responses |-> << >> ]

\* what a request finds on the node: the result of
\* keeper_config_set_pathnames_from_pgdata, the role of the configuration
\* file, whether keeper_state_read succeeds, and how the allocations go (the
\* last two for the only role that gets to them)
HttpEnvironments ==
    { e \in [ pathnamesOk : BOOLEAN, role : ConfigurationFileRoles,
              readable : BOOLEAN, alloc : Allocations ] :
        /\ e.role # PG_AUTOCTL_ROLE_KEEPER => ( e.readable /\ e.alloc = "ok" )
        /\ ~ e.readable => e.alloc = "ok" }

\* wby_update serves one request; the loop process runs on its own.  Only the
\* handler of /1.0/fsm/state looks at the node, so the other requests are
\* served on one node only.
HttpRequest ==
    /\ \E uri \in RequestUris :
         \E e \in IF uri = "/1.0/fsm/state"
                  THEN HttpEnvironments ELSE { HealthyNode } :
           httpd' = [ served |-> 1 - httpd.served, node |-> e ]
                    @@ httpd_dispatch(httpd, uri, e.pathnamesOk, e.role,
                                      e.readable, statefile, e.alloc)
    /\ UNCHANGED << clock, pidfile, statefile, configfile, pgRunning, writers,
                    keeper, otherSide, destroy >>

\* the keeper loop and the HTTP server side by side; the clock stands still
\* and no signal is sent
NextHttp ==
    \/ LoopTop(FirstPid)
    \/ CheckStop(FirstPid)
    \/ PidCheck(FirstPid)
    \/ LoadState(FirstPid)
    \/ LoadFailed(FirstPid)
    \/ UpdatePgState(FirstPid)
    \/ NodeActive(FirstPid)
    \/ EnsureCurrentState(FirstPid)
    \/ ReachAssignedState(FirstPid)
    \/ StoreState(FirstPid)
    \/ EndTick(FirstPid)
    \/ HttpRequest

SpecHttp == Init /\ [][NextHttp]_vars

\* C18: a request changes nothing but the server's own answer; the state
\* file is written by the loop's keeper_store_state only
C18_HandlersOnlyRead ==
    LET k == keeper[FirstPid]
    IN  /\ httpd' # httpd =>
             << clock, pidfile, statefile, configfile, pgRunning, writers,
                keeper, otherSide >>' =
             << clock, pidfile, statefile, configfile, pgRunning, writers,
                keeper, otherSide >>
        /\ statefile' # statefile =>
             ( k.pc = "store" /\ statefile' = k.state /\ httpd' = httpd )
        /\ writers' \subseteq { FirstPid }

\* C18: a /1.0/fsm/state request that answers 200 answers with the state file
\* as it is on disk when the request is served
C18_FreshRead ==
    ( /\ httpd'.served # httpd.served
      /\ httpd'.handler = "http_fsm_state"
      /\ httpd'.responses[Len(httpd'.responses)].status = 200 ) =>
        httpd'.responses[Len(httpd'.responses)].body = FsmJson(statefile)

\* C18: no HTTP handler writes the state file, the PID file or the
\* configuration; each /1.0/fsm/state request reads the state from disk, so
\* that its answer is never the one of an earlier request; the loop is the
\* only writer of the state file
C18_StatusServerIsAPureReader ==
    [][C18_HandlersOnlyRead /\ C18_FreshRead]_vars

\* C18: the server has answered with a state that the loop stored after the
\* service started, while the loop is in the middle of a later tick
C18_Witness ==
    /\ httpd.handler = "http_fsm_state"
    /\ httpd.responses # << >>
    /\ httpd.responses[Len(httpd.responses)].status = 200
    /\ httpd.responses[Len(httpd.responses)].body = FsmJson(statefile)
    /\ statefile.assigned_role # PRIMARY_STATE
    /\ FirstPid \in writers
    /\ keeper[FirstPid].pc = "monitor"

\* C19: after a request for one of the four routes httpd_dispatch has called
\* that route's handler and returned its result (true); after a request for
\* any other URI, the empty one included, it has called no handler, written
\* no response and returned 1 (the 404 result)
C19_Dispatch ==
    /\ httpd.uri = "/" =>
         /\ httpd.handler = "http_home"
         /\ httpd.result = http_home.result
         /\ httpd.responses = http_home.responses
    /\ httpd.uri = "/versions" =>
         /\ httpd.handler = "http_version"
         /\ httpd.result = http_version.result
         /\ httpd.responses = http_version.responses
    /\ httpd.uri = "/1.0/state" =>
         /\ httpd.handler = "http_state"
         /\ httpd.result = http_state.result
         /\ httpd.responses = http_state.responses
    /\ httpd.uri = "/1.0/fsm/state" =>
         /\ httpd.handler = "http_fsm_state"
         /\ httpd.result = 1
         /\ httpd.responses # << >>
    /\ httpd.uri \in { "", "/nope", "/1.0/fsm/state/" } =>
         /\ httpd.handler = NULL
         /\ httpd.result = 1
         /\ httpd.responses = << >>
    /\ httpd.uri \in RequestUris \cup { "none" }

\* C19: the last route of the table has been served
C19_Witness ==
    /\ httpd.uri = "/1.0/fsm/state"
    /\ httpd.handler = "http_fsm_state"
    /\ httpd.node.role = PG_AUTOCTL_ROLE_MONITOR

\* C20: the last response of a /1.0/fsm/state request, by what the request
\* found on the node
C20_StatusByRole ==
    LET last == httpd.responses[Len(httpd.responses)]
        node == httpd.node
    IN  httpd.handler = "http_fsm_state" =>
          /\ httpd.responses # << >>
          /\ node.role = PG_AUTOCTL_ROLE_MONITOR => last.status = 503
          /\ node.role = PG_AUTOCTL_ROLE_UNKNOWN =>
               /\ last.status = 503
               /\ last.body[1] = "Unrecognized configuration file "
          /\ ( node.role = PG_AUTOCTL_ROLE_KEEPER /\ node.readable
               /\ node.alloc = "ok" ) =>
               /\ last.status = 200
               /\ last.body[1] = "{"
          /\ ( node.role = PG_AUTOCTL_ROLE_KEEPER /\ ~ node.readable ) =>
               /\ last.status = 501
               /\ last.body =
                    << "Failed to read FSM state from ", "pathnames.state" >>
          /\ ( node.role = PG_AUTOCTL_ROLE_KEEPER /\ node.readable
               /\ node.alloc # "ok" ) =>
               /\ last.status = 501
               /\ last.body = << "Failed to allocate memory" >>
          /\ last.body # UninitializedBuffer

\* C20: the 200 answer of a keeper whose state file is readable is the JSON
\* text of that state file
C20_JsonOfTheStateFile ==
    ( /\ httpd'.served # httpd.served
      /\ httpd'.handler = "http_fsm_state"
      /\ httpd'.node.role = PG_AUTOCTL_ROLE_KEEPER
      /\ httpd'.node.readable
      /\ httpd'.node.alloc = "ok" ) =>
        httpd'.responses[Len(httpd'.responses)] =
            [ status |-> 200, body |-> FsmJson(statefile) ]

C21_Members(body) ==
    { << body[i], body[i + 1], body[i + 2] >> :
        i \in { j \in 2 .. Len(body) - 3 : (j - 2) % 3 = 0 } }

C21_KeysOf(body, object) ==
    { m[2] : m \in { n \in C21_Members(body) : n[1] = object } }

\* C21: the 200 body of /1.0/fsm/state has the top-level keys postgres, fsm
\* and monitor and no other; fsm holds current_role and assigned_role, whose
\* values are node states; monitor holds the keys current_node_id and
\* current_group
C21_FsmJsonKeys ==
    LET last == httpd.responses[Len(httpd.responses)]
    IN  ( /\ httpd.handler = "http_fsm_state"
          /\ httpd.responses # << >>
          /\ last.status = 200 ) =>
            /\ { m[1] : m \in C21_Members(last.body) } =
                 { "postgres", "fsm", "monitor" }
            /\ C21_KeysOf(last.body, "fsm") =
                 { "current_role", "assigned_role" }
            /\ \A m \in C21_Members(last.body) :
                 m[1] = "fsm" => m[3] \in NodeStates
            /\ C21_KeysOf(last.body, "monitor") =
                 { "current_node_id", "current_group" }

\* C21: a 200 body has been served whose top-level keys and fsm keys are the
\* expected ones and whose monitor object holds current_node_id and
\* current_groupd
C21_Witness ==
    LET last == httpd.responses[Len(httpd.responses)]
    IN  /\ httpd.handler = "http_fsm_state"
        /\ httpd.responses # << >>
        /\ last.status = 200
        /\ { m[1] : m \in C21_Members(last.body) } =
             { "postgres", "fsm", "monitor" }
        /\ C21_KeysOf(last.body, "fsm") = { "current_role", "assigned_role" }
        /\ C21_KeysOf(last.body, "monitor") =
             { "current_node_id", "current_groupd" }
        /\ << "fsm", "assigned_role", WAIT_PRIMARY_STATE >>
             \in C21_Members(last.body)

(***************************************************************************)
(* What the monitor is told, and the partition decision (under Spec).      *)
(***************************************************************************)
\* C22: the current_role given to monitor_node_active in a tick is the one
\* keeper_load_state read at the start of that tick, which is the one in the
\* state file until the tick's keeper_store_state
C22_ReportedRoleIsOnDisk ==
    LET k == keeper[FirstPid]
    IN  /\ k.tick.monitorCalled =>
             /\ k.tick.loaded
             /\ k.tick.reportedRole = k.tick.loadedState.current_role
        /\ ( k.tick.monitorCalled
             /\ k.pc \in { "ensure", "transition", "store" } ) =>
             k.tick.reportedRole = statefile.current_role
        /\ ~ k.tick.monitorCalled => k.tick.reportedRole = "none"

\* C22: monitor_node_active is called by the step of lines 210-266 only, with
\* the current_role of the state file
C22_ReportStep ==
    LET k == keeper[FirstPid]
        k2 == keeper'[FirstPid]
    IN  ( ~ k.tick.monitorCalled /\ k2.tick.monitorCalled ) =>
          /\ k.pc = "monitor"
          /\ k2.tick.reportedRole = statefile.current_role
          /\ statefile' = statefile

\* C22: the current_role reported to the monitor in a tick is the one read
\* from the state file at the start of that tick; after a tick whose
\* transition succeeded and whose keeper_store_state failed, the next tick
\* reports the on-disk current_role
C22_MonitorToldOnlyStoredRole ==
    [] C22_ReportedRoleIsOnDisk /\ [][C22_ReportStep]_vars

\* C22: the tick before ended with a current_role in memory that its failed
\* keeper_store_state did not write, and this tick has reported the role of
\* the state file
C22_Witness ==
    LET k == keeper[FirstPid]
    IN  /\ k.pc = "ensure"
        /\ k.tick.monitorCalled
        /\ ~ k.endStored
        /\ k.endRole # statefile.current_role
        /\ k.tick.reportedRole = statefile.current_role

(***************************************************************************)
(* The partition detector on every input: a primary that cannot reach the  *)
(* monitor, with contact times, a clock and a timeout drawn at will (a     *)
(* wall clock that was stepped backwards, a negative timeout included).     *)
(***************************************************************************)
\* the values of network_partition_timeout (an int) in the configuration
DetectorTimeouts == { -1, 0, PartitionTimeout }

InitDetector ==
    /\ clock \in 0 .. MaxTime
    /\ \E lmc \in 0 .. MaxTime, lsc \in 0 .. MaxTime :
         statefile = [ InitialKeeperState EXCEPT
                         !.last_monitor_contact = lmc,
                         !.last_secondary_contact = lsc ]
    /\ configfile = [ kind |-> "ok", formation |-> "default",
                      network_partition_timeout |-> PartitionTimeout ]
    /\ pgRunning = TRUE
    /\ writers = {}
    /\ otherSide = InitialOtherSide
    /\ httpd = InitialHttpd
    /\ destroy = InitialDestroy
    /\ pidfile = FirstPid
    /\ \E tau \in DetectorTimeouts :
         keeper = [ p \in { FirstPid } |->
                      [ InitialProcess(p) EXCEPT
                          !.config.network_partition_timeout = tau ] ]

\* monitor_node_active fails; primary_has_replica answers at will
NodeActiveLost(p) ==
    /\ \E probe \in ReplicaProbes :
         NodeActiveStep(p, FALSE, PRIMARY_STATE, probe)
    /\ UNCHANGED << clock, pidfile, statefile, configfile, pgRunning, writers,
                    otherSide, httpd, destroy >>

NextDetector ==
    \/ LoopTop(FirstPid)
    \/ CheckStop(FirstPid)
    \/ PidCheck(FirstPid)
    \/ LoadState(FirstPid)
    \/ LoadFailed(FirstPid)
    \/ UpdatePgState(FirstPid)
    \/ NodeActiveLost(FirstPid)
    \/ EnsureCurrentState(FirstPid)
    \/ ReachAssignedState(FirstPid)
    \/ StoreState(FirstPid)
    \/ EndTick(FirstPid)

SpecDetector == InitDetector /\ [][NextDetector]_vars

\* the tick has called in_network_partition: the monitor call failed on a
\* primary and primary_has_replica found no connected standby
C23_DetectorRan ==
    LET k == keeper[FirstPid]
    IN  /\ k.tick.monitorCalled
        /\ ~ k.couldContactMonitor
        /\ k.tick.loadedState.current_role = PRIMARY_STATE
        /\ k.tick.probe \in { "absent", "failed" }

C24_ConnectedStandbyMeansHealthy ==
    LET k == keeper[FirstPid]
        loaded == k.tick.loadedState
        timers == in_network_partition(loaded, k.tick.healthNow,
                                       k.config.network_partition_timeout)
    IN  ( /\ k.tick.monitorCalled
          /\ ~ k.couldContactMonitor
          /\ loaded.current_role = PRIMARY_STATE ) =>
            /\ k.tick.probe = "connected" =>
                 /\ ~ k.tick.overrode
                 /\ k.state.last_secondary_contact = k.tick.healthNow
                 /\ k.state.assigned_role = loaded.assigned_role
                 /\ k.state.last_monitor_contact = loaded.last_monitor_contact
            /\ k.tick.probe \in { "failed", "absent" } =>
                 /\ k.state.last_secondary_contact =
                      loaded.last_secondary_contact
                 /\ k.tick.overrode <=> timers
                 /\ k.state.assigned_role =
                      IF timers THEN DEMOTE_TIMEOUT_STATE
                      ELSE loaded.assigned_role

\* C24: a standby is connected in a tick whose timers are both past the
\* timeout, and the tick has kept its assignment
C24_Witness ==
    LET k == keeper[FirstPid]
        loaded == k.tick.loadedState
    IN  /\ k.pc = "ensure"
        /\ k.tick.monitorCalled
        /\ ~ k.couldContactMonitor
        /\ loaded.current_role = PRIMARY_STATE
        /\ k.tick.probe = "connected"
        /\ in_network_partition(loaded, k.tick.healthNow,
                                k.config.network_partition_timeout)
        /\ k.state.last_secondary_contact = k.tick.healthNow
        /\ k.state.last_secondary_contact # loaded.last_secondary_contact
        /\ k.state.assigned_role = PRIMARY_STATE

\* the tick has loaded current_role = assigned_role = DEMOTE_TIMEOUT (no
\* answer of the monitor is stored since the demotion) and its monitor call
\* has failed
C25_DemotedTickWithoutMonitor ==
    LET k == keeper[FirstPid]
    IN  /\ k.tick.monitorCalled
        /\ ~ k.couldContactMonitor
        /\ k.tick.loadedState.current_role = DEMOTE_TIMEOUT_STATE
        /\ k.tick.loadedState.assigned_role = DEMOTE_TIMEOUT_STATE

\* C25: such a tick runs no partition check, does not call
\* keeper_ensure_current_state, attempts no transition and keeps the state it
\* loaded
C25_DemotedTickDoesNothing ==
    LET k == keeper[FirstPid]
    IN  C25_DemotedTickWithoutMonitor =>
          /\ k.tick.probe = "none"
          /\ ~ k.tick.overrode
          /\ ~ k.tick.ensured
          /\ ~ k.tick.transitionTried
          /\ k.state = k.tick.loadedState

\* C25: such a tick leaves Postgres as it is, and the state file changes from
\* current_role = assigned_role = DEMOTE_TIMEOUT only in a tick that reached
\* the monitor
C25_DemotedStep ==
    LET k == keeper[FirstPid]
    IN  /\ C25_DemotedTickWithoutMonitor => pgRunning' = pgRunning
        /\ ( /\ statefile.current_role = DEMOTE_TIMEOUT_STATE
             /\ statefile.assigned_role = DEMOTE_TIMEOUT_STATE
             /\ statefile' # statefile ) =>
               ( k.tick.monitorCalled /\ k.couldContactMonitor )

\* C25: once current_role = DEMOTE_TIMEOUT is persisted, and until an answer
\* of the monitor is stored, every tick where the monitor is unreachable runs
\* no partition check, attempts no transition, leaves assigned_role =
\* DEMOTE_TIMEOUT, does not call keeper_ensure_current_state and does not
\* start Postgres
C25_DemotedUntilMonitorAnswers ==
    [] C25_DemotedTickDoesNothing /\ [][C25_DemotedStep]_vars

\* C25: a tick after the demotion has ended without monitor contact and has
\* stored the state, with Postgres stopped
C25_Witness ==
    LET k == keeper[FirstPid]
    IN  /\ k.pc = "end_tick"
        /\ C25_DemotedTickWithoutMonitor
        /\ k.tick.stored
        /\ statefile.current_role = DEMOTE_TIMEOUT_STATE
        /\ ~ pgRunning

(***************************************************************************)
(* A monitor whose answer carries any node id and group id.                *)
(***************************************************************************)
\* the nodeId and groupId of a MonitorAssignedState
AssignedIds == { << n, g >> : n \in { 1, 2 }, g \in { 0, 1 } }

NodeActiveAssigned(p) ==
    /\ \E reached \in BOOLEAN, answer \in MonitorAnswers,
          probe \in ReplicaProbes, ids \in AssignedIds :
         NodeActiveStepWith(p, reached, answer, probe, ids)
    /\ UNCHANGED << clock, pidfile, statefile, configfile, pgRunning, writers,
                    otherSide, httpd, destroy >>

NextAssigned ==
    \/ LoopTop(FirstPid)
    \/ CheckStop(FirstPid)
    \/ PidCheck(FirstPid)
    \/ LoadState(FirstPid)
    \/ LoadFailed(FirstPid)
    \/ UpdatePgState(FirstPid)
    \/ NodeActiveAssigned(FirstPid)
    \/ EnsureCurrentState(FirstPid)
    \/ ReachAssignedState(FirstPid)
    \/ StoreState(FirstPid)
    \/ EndTick(FirstPid)
    \/ Tick

SpecAssigned == Init /\ [][NextAssigned]_vars

\* C26: after a monitor_node_active that succeeded, and before the steps that
\* follow it, the keeper state is the one the tick loaded but for
\* last_monitor_contact, which is the now of the top of the tick, and
\* assigned_role, which is one of the states the monitor answers; the ids of
\* the answer are not taken
C26_MonitorStepFrame ==
    LET k == keeper[FirstPid]
        loaded == k.tick.loadedState
    IN  ( k.pc = "ensure" /\ k.couldContactMonitor ) =>
          /\ k.tick.monitorCalled
          /\ k.state.last_monitor_contact = k.now
          /\ k.state.assigned_role \in MonitorAnswers
          /\ k.state = [ loaded EXCEPT
                           !.last_monitor_contact = k.now,
                           !.assigned_role = k.state.assigned_role ]
          /\ k.state.current_role = loaded.current_role
          /\ k.state.current_node_id = loaded.current_node_id
          /\ k.state.current_group = loaded.current_group
          /\ k.tick.probe = "none"

\* C26: the last_monitor_contact a tick sets is the time read at the top of
\* the iteration, which the sleep and the calls of the tick can leave behind
\* the clock
C26_NowIsSampledAtTheTop ==
    LET k == keeper[FirstPid]
        k2 == keeper'[FirstPid]
    IN  /\ ( k.pc = "top" /\ k2.pc \in { "reload", "stop_check" } ) =>
             k2.now = clock
        /\ k2.now # k.now => k.pc = "top"

\* C26: in a tick where monitor_node_active succeeds the loop changes
\* last_monitor_contact (to the now sampled at the top of the tick) and
\* assigned_role (to the returned state) and no other field of the keeper
\* state before the ensure and transition steps, whatever node id and group
\* id the assignment carries
C26_MonitorStepChangesTwoFields ==
    [] C26_MonitorStepFrame /\ [][C26_NowIsSampledAtTheTop]_vars

\* C26: the monitor has answered with another node id and another group id, at
\* a time later than the tick's now, and with another state
C26_Witness ==
    LET k == keeper[FirstPid]
    IN  /\ k.pc = "ensure"
        /\ k.couldContactMonitor
        /\ k.tick.assignedIds = << 2, 1 >>
        /\ k.state.current_node_id = 1
        /\ k.state.current_group = 0
        /\ k.now < clock
        /\ k.state.last_monitor_contact = k.now
        /\ k.state.assigned_role # k.tick.loadedState.assigned_role

(***************************************************************************)
(* Termination on stop: the loop and the signals, every blocking call      *)
(* returning (weak fairness of the loop's steps).                           *)
(***************************************************************************)
NextStop ==
    \/ KeeperStep(FirstPid)
    \/ SigTerm(FirstPid)
    \/ SigQuit(FirstPid)
    \/ SigHup(FirstPid)

SpecStop == Init /\ [][NextStop]_vars /\ WF_vars(KeeperStep(FirstPid))

\* the steps left to a loop that is asked to stop gracefully: the rest of the
\* tick, its end, and the test of asked_to_stop of the next iteration
C27_StepsLeftOnStop(pc) ==
    CASE pc = "exited" -> 0
      [] pc = "returned" -> 1
      [] pc = "stop_check" -> 2
      [] pc = "reload_done" -> 3
      [] pc = "reload" -> 4
      [] pc = "top" -> 5
      [] pc = "end_tick" -> 6
      [] pc = "load_failed" -> 6
      [] pc = "store" -> 7
      [] pc = "transition" -> 8
      [] pc = "ensure" -> 9
      [] pc = "monitor" -> 10
      [] pc = "probe" -> 11
      [] pc = "load" -> 12
      [] pc = "pid_check" -> 13

\* the steps left to a loop that is asked to stop fast: the next barrier, or
\* the end of a tick that is past its last barrier and the while test, or the
\* start of the next iteration up to its first barrier
C27_StepsLeftOnFastStop(pc) ==
    CASE pc = "exited" -> 0
      [] pc = "returned" -> 1
      [] pc \in { "load", "load_failed", "monitor", "ensure", "transition" } -> 2
      [] pc \in { "pid_check", "probe" } -> 3
      [] pc = "stop_check" -> 4
      [] pc = "reload_done" -> 5
      [] pc = "reload" -> 6
      [] pc = "top" -> 7
      [] pc = "end_tick" -> 8
      [] pc = "store" -> 9

C27_StepsLeft(k) ==
    IF k.asked_to_stop /\ k.asked_to_stop_fast
    THEN IF C27_StepsLeftOnStop(k.pc) < C27_StepsLeftOnFastStop(k.pc)
         THEN C27_StepsLeftOnStop(k.pc)
         ELSE C27_StepsLeftOnFastStop(k.pc)
    ELSE IF k.asked_to_stop_fast
    THEN C27_StepsLeftOnFastStop(k.pc)
    ELSE C27_StepsLeftOnStop(k.pc)

C27_StopAsked ==
    keeper[FirstPid].asked_to_stop \/ keeper[FirstPid].asked_to_stop_fast

C27_Stopped == keeper[FirstPid].pc \in { "returned", "exited" }

\* C27: every step of a loop that is asked to stop brings it nearer to its
\* return, and a signal does not take it further away; a stop flag stays set
C27_StopStep ==
    LET k == keeper[FirstPid]
        k2 == keeper'[FirstPid]
    IN  C27_StopAsked =>
          /\ C27_StepsLeft(k2) <= C27_StepsLeft(k)
          /\ k2.pc # k.pc => C27_StepsLeft(k2) < C27_StepsLeft(k)
          /\ C27_StepsLeft(k) <= 13
          /\ k.asked_to_stop => k2.asked_to_stop
          /\ k.asked_to_stop_fast => k2.asked_to_stop_fast
          /\ ( k.pc = "top" /\ k2.pc \notin { "top", "returned" } ) =>
               k.keepRunning

\* C27: once asked_to_stop or asked_to_stop_fast is set, keeper_service_run
\* returns or the process exits, after at most the rest of the current tick
\* and the start of the next iteration (each step of the loop brings it
\* nearer), also when keeper_load_state fails in every tick and when
\* asked_to_stop_fast is set after the last barrier of a tick
C27_TerminationOnStop ==
    /\ [][C27_StopStep]_vars
    /\ C27_StopAsked ~> C27_Stopped

\* C27: a loop that was asked to stop fast after the last barrier of a tick
\* has stored the state and left the while loop at its test
C27_Witness ==
    LET k == keeper[FirstPid]
    IN  /\ k.pc = "returned"
        /\ k.exitAt = "while"
        /\ k.asked_to_stop_fast
        /\ ~ k.asked_to_stop
        /\ k.storesUnderFastStop > 0

\* a tick of a primary that could not reach the monitor and whose
\* is_network_healthy returned healthy, past the transition
C28_HealthyTickWithoutMonitor ==
    LET k == keeper[FirstPid]
    IN  /\ k.pc \in { "store", "end_tick" }
        /\ k.tick.monitorCalled
        /\ ~ k.couldContactMonitor
        /\ k.tick.loaded
        /\ k.tick.loadedState.current_role = PRIMARY_STATE
        /\ ~ k.tick.overrode

\* C28: the primary is only demoted on a partition verdict of the same tick:
\* when the monitor is unreachable and is_network_healthy returns healthy, the
\* tick attempts no PRIMARY -> DEMOTE_TIMEOUT transition, also when the state
\* file it read held assigned_role = DEMOTE_TIMEOUT
C28_DemotionNeedsVerdictOfTheTick ==
    C28_HealthyTickWithoutMonitor =>
        ~ ( /\ keeper[FirstPid].tick.transitionTried
            /\ keeper[FirstPid].state.assigned_role = DEMOTE_TIMEOUT_STATE )

\* C28: a healthy tick without monitor that read assigned_role = PRIMARY has
\* attempted no transition and stores the primary
C28_Witness ==
    LET k == keeper[FirstPid]
    IN  /\ C28_HealthyTickWithoutMonitor
        /\ k.pc = "store"
        /\ k.tick.probe = "connected"
        /\ k.tick.loadedState.assigned_role = PRIMARY_STATE
        /\ ~ k.tick.transitionTried
        /\ k.state.current_role = PRIMARY_STATE
        /\ k.state.assigned_role = PRIMARY_STATE

\* C28: a healthy tick without monitor that read the assignment DEMOTE_TIMEOUT
\* stored by an earlier tick has attempted the demotion
C28_DemotedOnStoredVerdict ==
    LET k == keeper[FirstPid]
    IN  /\ C28_HealthyTickWithoutMonitor
        /\ k.tick.probe = "connected"
        /\ k.tick.loadedState.assigned_role = DEMOTE_TIMEOUT_STATE
        /\ k.tick.transitionTried

\* the verdict of in_network_partition on the elapsed time as a signed
\* quantity: now - contact may be negative, and so may the timeout
C29_PartitionOnElapsedTime(keeperState, now, networkPartitionTimeout) ==
    /\ keeperState.last_monitor_contact > 0
    /\ keeperState.last_secondary_contact > 0
    /\ now - keeperState.last_monitor_contact > networkPartitionTimeout
    /\ now - keeperState.last_secondary_contact > networkPartitionTimeout

\* C29: the lag arithmetic of in_network_partition is immune to uint64
\* wraparound and sign conversion: the verdict of a tick is the one of the
\* elapsed time taken as a signed quantity, so it is false whenever now is
\* earlier than a contact time, and a negative network_partition_timeout is
\* compared as the negative number it is
C29_VerdictFollowsElapsedTime ==
    LET k == keeper[FirstPid]
    IN  C23_DetectorRan =>
          ( k.tick.overrode <=>
              C29_PartitionOnElapsedTime(k.state, k.tick.healthNow,
                                         k.config.network_partition_timeout) )

\* C29: with now not earlier than both contacts and a timeout that is not
\* negative, the detector found a partition after more than the timeout
C29_Witness ==
    LET k == keeper[FirstPid]
    IN  /\ C23_DetectorRan
        /\ k.tick.overrode
        /\ k.config.network_partition_timeout = PartitionTimeout
        /\ k.state.last_monitor_contact > 0
        /\ k.state.last_secondary_contact > 0
        /\ k.tick.healthNow - k.state.last_monitor_contact > PartitionTimeout
        /\ k.tick.healthNow - k.state.last_secondary_contact > PartitionTimeout

\* C29: a clock that stepped back behind the last monitor contact makes the
\* lag wrap around, and the detector finds a partition
C29_WrappedLagDemotes ==
    LET k == keeper[FirstPid]
    IN  /\ C23_DetectorRan
        /\ k.tick.overrode
        /\ k.tick.healthNow < k.state.last_monitor_contact

\* C29: a negative timeout is compared as a huge unsigned number, and the
\* detector finds no partition however long ago the contacts were
C29_NegativeTimeoutNeverDemotes ==
    LET k == keeper[FirstPid]
    IN  /\ C23_DetectorRan
        /\ ~ k.tick.overrode
        /\ k.config.network_partition_timeout < 0
        /\ k.state.last_monitor_contact > 0
        /\ k.state.last_secondary_contact > 0
        /\ k.tick.healthNow > k.state.last_monitor_contact
        /\ k.tick.healthNow > k.state.last_secondary_contact

(***************************************************************************)
(* Reload requests: SIGHUP is delivered at any point of the loop, also      *)
(* while reload_configuration runs.                                         *)
(***************************************************************************)
\* the signal handler sets asked_to_reload, wherever the loop is
SigHupAnytime(p) ==
    /\ keeper[p].pc \notin { "returned", "exited" }
    /\ ~ ( keeper[p].asked_to_reload /\ keeper[p].hupSinceRead )
    /\ keeper' = [ keeper EXCEPT ![p].asked_to_reload = TRUE,
                                 ![p].hupSinceRead = TRUE ]
    /\ UNCHANGED << clock, pidfile, statefile, configfile, pgRunning, writers,
                    otherSide, httpd, destroy >>

NextReloadRace ==
    \/ KeeperStep(FirstPid)
    \/ SigHupAnytime(FirstPid)
    \/ SigTerm(FirstPid)
    \/ EditConfig

SpecReloadRace == Init /\ [][NextReloadRace]_vars

\* C30: no reload request is lost: as long as a SIGHUP was delivered and
\* reload_configuration has not started to read the configuration file since,
\* asked_to_reload is set, so that the next iteration reads the file; also for
\* a SIGHUP that arrives while reload_configuration runs, after the file was
\* read and before the flag is cleared
C30_NoReloadRequestLost ==
    LET k == keeper[FirstPid]
    IN  ( k.hupSinceRead /\ k.pc \notin { "returned", "exited" } ) =>
            k.asked_to_reload

\* C30: a SIGHUP that arrived after the service had stored its state is
\* followed by a read of the configuration file at the top of an iteration,
\* which took the timeout the operator wrote
C30_Witness ==
    LET k == keeper[FirstPid]
    IN  /\ k.pc = "reload_done"
        /\ k.asked_to_reload
        /\ ~ k.hupSinceRead
        /\ FirstPid \in writers
        /\ configfile.kind = "ok"
        /\ configfile.network_partition_timeout = OtherPartitionTimeout
        /\ k.config.network_partition_timeout = OtherPartitionTimeout

\* C30: a SIGHUP that arrived after the file was read and before
\* asked_to_reload = 0 is forgotten: the loop runs on with the old timeout
\* while the file holds the new one, and no reload is pending
C30_ReloadRequestLost ==
    LET k == keeper[FirstPid]
    IN  /\ k.pc = "pid_check"
        /\ k.hupSinceRead
        /\ ~ k.asked_to_reload
        /\ configfile.kind = "ok"
        /\ configfile.network_partition_timeout = OtherPartitionTimeout
        /\ k.config.network_partition_timeout = PartitionTimeout

\* C31: every request handled by http_fsm_state produces exactly one HTTP
\* response (one wby_response_begin / wby_response_end pair) on every path,
\* also when keeper_config_set_pathnames_from_pgdata fails and a 503 was sent
C31_ExactlyOneResponse ==
    httpd.handler = "http_fsm_state" => Len(httpd.responses) = 1

\* C31: a request to /1.0/fsm/state on a node whose pathnames could be set
\* got one response, whatever the role of the configuration file
C31_Witness ==
    /\ httpd.handler = "http_fsm_state"
    /\ httpd.node.pathnamesOk
    /\ httpd.node.role = PG_AUTOCTL_ROLE_MONITOR
    /\ Len(httpd.responses) = 1
    /\ httpd.responses[1].status = 503

\* C31: after keeper_config_set_pathnames_from_pgdata failed the handler has
\* sent the 503 and then the response of the switch
C31_TwoResponses ==
    /\ httpd.handler = "http_fsm_state"
    /\ ~ httpd.node.pathnamesOk
    /\ Len(httpd.responses) = 2
    /\ httpd.responses[1].status = 503
    /\ httpd.responses[1].body = << >>

\* C32: whenever keeper_service_run has returned in the node_active child,
\* asked_to_stop or asked_to_stop_fast is set, so the child exits with
\* EXIT_CODE_QUIT after a return: EXIT_CODE_INTERNAL_ERROR is never produced
\* by a return of the loop, and a PID guard failure exits with EXIT_CODE_QUIT
C32_ChildExitsWithQuit ==
    LET k == keeper[FirstPid]
    IN  /\ k.pc = "returned" => ( k.asked_to_stop \/ k.asked_to_stop_fast )
        /\ k.pc = "exited" => k.exitCode = EXIT_CODE_QUIT
        /\ k.pc # "exited" => k.exitCode = EXIT_CODE_NONE
        /\ ( k.pc = "exited" /\ k.exitAt # "pidfile" ) =>
               ( k.asked_to_stop \/ k.asked_to_stop_fast )

\* C32: the child has exited with EXIT_CODE_QUIT after the loop ended at its
\* while test, asked to stop during a tick
C32_Witness ==
    LET k == keeper[FirstPid]
    IN  /\ k.pc = "exited"
        /\ k.exitAt = "while"
        /\ k.asked_to_stop
        /\ ~ k.asked_to_stop_fast
        /\ k.exitCode = EXIT_CODE_QUIT

(***************************************************************************)
(* pg_autoctl destroy, run by an operator while the keeper is running.      *)
(***************************************************************************)
EXIT_CODE_BAD_STATE == "EXIT_CODE_BAD_STATE"

\* the operator starts the command
DestroyStart ==
    /\ destroy.pc = "none"
    /\ keeper[FirstPid].pc \notin { "returned", "exited" }
    /\ destroy' = [ destroy EXCEPT !.pc = "signal" ]
    /\ UNCHANGED << clock, pidfile, statefile, configfile, pgRunning, writers,
                    keeper, otherSide, httpd >>

\* keeper_cli_destroy_keeper_node, its first block: kill(pid, SIGQUIT) for the
\* PID read from the PID file; the command goes on at once, and exits when
\* the signal cannot be sent
DestroySignal ==
    /\ destroy.pc = "signal"
    /\ IF read_pidfile(pidfile)
       THEN IF pidfile \in DOMAIN keeper /\ keeper[pidfile].pc # "exited"
            THEN /\ keeper' = [ keeper EXCEPT
                                  ![pidfile].asked_to_stop_fast = TRUE ]
                 /\ destroy' = [ destroy EXCEPT !.pc = "remove" ]
            ELSE /\ destroy' = [ destroy EXCEPT
                                   !.pc = "exited",
                                   !.exitCode = EXIT_CODE_INTERNAL_ERROR ]
                 /\ UNCHANGED keeper
       ELSE /\ destroy' = [ destroy EXCEPT !.pc = "remove" ]
            /\ UNCHANGED keeper
    /\ UNCHANGED << clock, pidfile, statefile, configfile, pgRunning, writers,
                    otherSide, httpd >>

\* its second block: keeper_remove when the state file is there, which
\* removes the node from the monitor and the state file, or fails
DestroyRemove ==
    /\ destroy.pc = "remove"
    /\ \E ok \in BOOLEAN :
         destroy' =
           IF destroy.stateRemoved
           THEN [ destroy EXCEPT !.pc = "pgdata" ]
           ELSE IF ok
           THEN [ destroy EXCEPT !.stateRemoved = TRUE, !.pc = "pgdata" ]
           ELSE [ destroy EXCEPT !.pc = "exited",
                                 !.exitCode = EXIT_CODE_BAD_STATE ]
    /\ UNCHANGED << clock, pidfile, statefile, configfile, pgRunning, writers,
                    keeper, otherSide, httpd >>

\* its last statement: stop_postgres_and_remove_pgdata_and_config
DestroyPgdata ==
    /\ destroy.pc = "pgdata"
    /\ destroy' = [ destroy EXCEPT !.pgdataRemoved = TRUE, !.pc = "done" ]
    /\ pgRunning' = FALSE
    /\ configfile' = [ kind |-> "missing", formation |-> "default",
                       network_partition_timeout |-> OtherPartitionTimeout ]
    /\ UNCHANGED << clock, pidfile, statefile, writers, keeper, otherSide,
                    httpd >>

\* the keeper loop, its signals, and the destroy command side by side
NextDestroy ==
    \/ KeeperStep(FirstPid)
    \/ SigTerm(FirstPid)
    \/ SigHup(FirstPid)
    \/ DestroyStart
    \/ DestroySignal
    \/ DestroyRemove
    \/ DestroyPgdata

SpecDestroy == Init /\ [][NextDestroy]_vars

\* a step of the keeper that calls the monitor, acts on Postgres or writes
\* the state file
C33_KeeperActs ==
    LET k == keeper[FirstPid]
        k2 == keeper'[FirstPid]
    IN  \/ k2.tick.monitorCalled /\ ~ k.tick.monitorCalled
        \/ k2.tick.ensured /\ ~ k.tick.ensured
        \/ k2.tick.transitionTried /\ ~ k.tick.transitionTried
        \/ k2.tick.storeCalls > k.tick.storeCalls
        \/ statefile' # statefile
        \/ writers' # writers

\* C33: destroy sends SIGQUIT and goes on without waiting; under every
\* interleaving with a keeper in the middle of a tick, the keeper performs no
\* monitor call, no Postgres action and no state-file write after destroy has
\* removed the state file
C33_KeeperStep ==
    destroy.stateRemoved => ~ C33_KeeperActs

C33_KeeperQuietAfterDestroy == [][C33_KeeperStep]_vars

\* C33: a keeper that was signalled before the last barrier of its tick has
\* left the loop at a barrier and exited without writing the state file that
\* destroy removed
C33_Witness ==
    LET k == keeper[FirstPid]
    IN  /\ destroy.pc = "done"
        /\ destroy.stateRemoved
        /\ k.pc = "exited"
        /\ k.exitAt \in { "barrier_pid", "barrier_load", "barrier_probe",
                          "barrier_monitor", "barrier_ensure" }
        /\ k.exitCode = EXIT_CODE_QUIT
        /\ k.storesUnderFastStop = 0

\* C33: a keeper that was past its last barrier when it was signalled has
\* written the state file after destroy removed it
C33_StateFileWrittenBack ==
    LET k == keeper[FirstPid]
    IN  /\ destroy.stateRemoved
        /\ k.pc = "end_tick"
        /\ k.tick.stored
        /\ k.storesUnderFastStop > 0

====
